---- MODULE Spec2Model ----
(***************************************************************************)
(* TinyDB: the relational storage (Value / Row / Table), the condition     *)
(* evaluator, the condition parser and the join executor, as a state       *)
(* machine.  Each action is one call of the program; `call` records the    *)
(* call and its arguments, `before` the rows at the time of the call and   *)
(* `ret` what the call returned or threw.                                  *)
(***************************************************************************)
EXTENDS Integers, Sequences, FiniteSets, TLC

VARIABLES
    schema,       \* Table::schema      (table.hpp:115)
    rows,         \* Table::rows        (table.hpp:116)
    before,       \* the rows when the last call started
    inserted,     \* the rows accepted by insertRow, while only insertRow was called
    onlyInserts,  \* TRUE while no updateRows / deleteRows call has been made
    tables,       \* Database::tables of SQLExecutor::db_   (database.hpp)
    tokens_,      \* Parser::tokens_    (parser.hpp)
    srcTree,      \* the condition tree the token sequence was written from
    input,        \* std::cin: the statements left in it, the errors reported so far
    txn,          \* a Database::Transaction, and the rollback actions that have run
    file,         \* the characters of the file PersistenceManager writes and reads
    call,         \* the last call: its name and arguments
    ret           \* the last call's outcome: [threw, what, value]

vars ==
    <<schema, rows, before, inserted, onlyInserts, tables, tokens_, srcTree, input, txn,
      file, call, ret>>

(***************************************************************************)
(* Bounds of the model.                                                    *)
(***************************************************************************)
MaxRows == 3

\* no statement is read from std::cin
NoInput == [left |-> 0, reported |-> 0, aborted |-> FALSE]

\* no Transaction has been begun
NoTransaction ==
    [rollbackActions |-> <<>>, committed |-> FALSE, destroyed |-> FALSE, ran |-> <<>>,
     registered |-> <<>>, rolledBack |-> FALSE, rolledBackAt |-> 0]

(***************************************************************************)
(* Outcomes of a call: a returned value or a thrown exception class.       *)
(***************************************************************************)
Ok(v) == [threw |-> FALSE, what |-> "", value |-> v]
Throw(w) == [threw |-> TRUE, what |-> w, value |-> <<>>]

(***************************************************************************)
(* value.hpp: Value is a variant<int, std::string>: `type` is the held     *)
(* alternative, `int` or `str` its content (the other one is left at its   *)
(* default).  Texts are ordered by TextRank, their lexicographic place.    *)
(***************************************************************************)
IntValue(n) == [type |-> "INT", int |-> n, str |-> ""]
StrValue(s) == [type |-> "STR", int |-> 0, str |-> s]

Ints == {1, 2}
Texts == {"x", "y"}
TextRank(s) == CASE s = "" -> 0 [] s = "x" -> 1 [] s = "y" -> 2 [] OTHER -> 3

Values == {IntValue(n) : n \in Ints} \cup {StrValue(s) : s \in Texts}

Column(n, t) == [name |-> n, type |-> t]

\* Value::operator== compares the variants: different alternatives are unequal,
\* nothing is thrown.
ValueEquals(a, b) == a.type = b.type /\ a.int = b.int /\ a.str = b.str

\* Value::operator<=> throws on different types, else orders within the type.
ValueCompare(a, b) ==
    IF a.type # b.type THEN Throw("runtime_error")
    ELSE LET x == IF a.type = "INT" THEN a.int ELSE TextRank(a.str)
             y == IF b.type = "INT" THEN b.int ELSE TextRank(b.str)
         IN  Ok(IF x < y THEN -1 ELSE IF x = y THEN 0 ELSE 1)

(***************************************************************************)
(* condition.hpp / condition.cpp.  A column name is the sequence of its    *)
(* dot-separated parts: <<"users", "id">> is "users.id".                   *)
(***************************************************************************)
Literal(v) == [type |-> "LITERAL", literal |-> v, column |-> <<>>]
ColumnRef(parts) == [type |-> "COLUMN", literal |-> IntValue(0), column |-> parts]

Comparison(l, o, r) == [kind |-> "comparison", left |-> l, op |-> o, right |-> r]
Logical(l, o, r) == [kind |-> "logical", left |-> l, op |-> o, right |-> r]
\* an empty std::function, as executeUpdate / executeDelete pass without WHERE
NullCondition == [kind |-> "null"]

\* columnName.substr(columnName.find('.') + 1): all that follows the first dot
ActualColumnName(columnName) ==
    IF Len(columnName) > 1 THEN Tail(columnName) ELSE columnName

\* the first index of the schema whose name equals the name, or 0
FirstIndex(sch, name) ==
    LET hits == {i \in 1..Len(sch) : <<sch[i].name>> = name}
    IN  IF hits = {} THEN 0 ELSE CHOOSE i \in hits : \A j \in hits : i <= j

ConditionValue_evaluate(cv, row, sch) ==
    IF cv.type = "LITERAL" THEN Ok(cv.literal)
    ELSE LET columnIndex == FirstIndex(sch, ActualColumnName(cv.column))
         IN  IF columnIndex = 0 THEN Throw("runtime_error")
             ELSE IF columnIndex > Len(row) THEN Throw("runtime_error")
             ELSE Ok(row[columnIndex])

CompareOp(op, leftVal, rightVal) ==
    CASE op = "=" -> ValueEquals(leftVal, rightVal)
      [] op = "!=" -> ~ValueEquals(leftVal, rightVal)
      [] op = "<" -> ValueCompare(leftVal, rightVal).value < 0
      [] op = ">" -> ValueCompare(leftVal, rightVal).value > 0
      [] op = "<=" -> ValueCompare(leftVal, rightVal).value <= 0
      [] op = ">=" -> ValueCompare(leftVal, rightVal).value >= 0

\* condition.cpp:58-84, with both operands evaluated
CompareValues(op, leftVal, rightVal) ==
    IF leftVal.threw THEN leftVal
    ELSE IF rightVal.threw THEN rightVal
    ELSE IF leftVal.value.type # rightVal.value.type THEN Throw("runtime_error")
    ELSE Ok(CompareOp(op, leftVal.value, rightVal.value))

ComparisonCondition_evaluate(c, row, sch) ==
    CompareValues(c.op, ConditionValue_evaluate(c.left, row, sch),
                  ConditionValue_evaluate(c.right, row, sch))

RECURSIVE Condition_evaluate(_, _, _)

\* `left->evaluate(..) && right->evaluate(..)`, `||`: l is the left operand's
\* outcome; the built-in && and || evaluate the right operand only when the
\* left one does not decide the result.
LogicalRight(c, l, row, sch) ==
    IF l.threw THEN l
    ELSE IF c.op = "AND"
    THEN (IF l.value THEN Condition_evaluate(c.right, row, sch) ELSE Ok(FALSE))
    ELSE IF c.op = "OR"
    THEN (IF l.value THEN Ok(TRUE) ELSE Condition_evaluate(c.right, row, sch))
    ELSE Ok(~l.value)

LogicalCondition_evaluate(c, row, sch) ==
    LogicalRight(c, Condition_evaluate(c.left, row, sch), row, sch)

Condition_evaluate(c, row, sch) ==
    IF c.kind = "comparison" THEN ComparisonCondition_evaluate(c, row, sch)
    ELSE LogicalCondition_evaluate(c, row, sch)

\* calling the std::function the Table is given; an empty one throws
CallCondition(condition, row, sch) ==
    IF condition.kind = "null" THEN Throw("bad_function_call")
    ELSE Condition_evaluate(condition, row, sch)

(***************************************************************************)
(* table.cpp                                                               *)
(***************************************************************************)
hasColumn(sch, name) == \E i \in 1..Len(sch) : sch[i].name = name

findColumnIndex(sch, columnName) == FirstIndex(sch, <<columnName>>)

\* validateRow without its type check
validateRowArityOnly(sch, row) ==
    IF Len(row) # Len(sch) THEN Throw("invalid_argument") ELSE Ok(TRUE)

validateRow(sch, row) ==
    IF Len(row) # Len(sch) THEN Throw("invalid_argument")
    ELSE IF \E i \in 1..Len(sch) : row[i].type # sch[i].type THEN Throw("invalid_argument")
    ELSE Ok(TRUE)

\* the outcome of a call on the table: what it returns or throws, and the rows it leaves
Done(v, rs) == [threw |-> FALSE, what |-> "", value |-> v, rows |-> rs]
Thrown(w, rs) == [threw |-> TRUE, what |-> w, value |-> <<>>, rows |-> rs]

\* insertRow appending before it validates
insertRowAppendFirst(rs, row, v) ==
    IF v.threw THEN Thrown(v.what, Append(rs, row)) ELSE Done(<<>>, Append(rs, row))

\* table.cpp:88-91: v is validateRow's outcome
insertRow(rs, row, v) ==
    IF v.threw THEN Thrown(v.what, rs) ELSE Done(<<>>, Append(rs, row))

\* Row::setValue (table.hpp:81-86) on row
setValue(row, index, value) ==
    IF index > Len(row) THEN [threw |-> TRUE, what |-> "out_of_range", row |-> row]
    ELSE [threw |-> FALSE, what |-> "", row |-> [row EXCEPT ![index] = value]]

\* table.cpp:196-199: Row::setValue for every entry of the map from the k-th on,
\* in the map's iteration order
RECURSIVE setValues(_, _, _, _, _)
setValuesNext(sch, s, updates, order, k) ==
    IF s.threw THEN s ELSE setValues(sch, s.row, updates, order, k + 1)

setValues(sch, row, updates, order, k) ==
    IF k > Len(order) THEN [threw |-> FALSE, what |-> "", row |-> row]
    ELSE IF ~hasColumn(sch, order[k])
    THEN [threw |-> TRUE, what |-> "invalid_argument", row |-> row]
    ELSE setValuesNext(sch, setValue(row, findColumnIndex(sch, order[k]), updates[order[k]]),
                       updates, order, k)

\* validateUpdates without its type check
validateUpdatesExistOnly(sch, updates) ==
    IF \E c \in DOMAIN updates : ~hasColumn(sch, c) THEN Throw("invalid_argument")
    ELSE Ok(TRUE)

\* table.cpp:180-191, the validation of the update map
validateUpdates(sch, updates) ==
    IF \E c \in DOMAIN updates :
          \/ ~hasColumn(sch, c)
          \/ updates[c].type # sch[findColumnIndex(sch, c)].type
    THEN Throw("invalid_argument")
    ELSE Ok(TRUE)

\* table.cpp:194-202, the update loop from row i on; a throw leaves the rows
\* as the loop has made them so far.  c is the condition's outcome on row i,
\* s the outcome of the row's setValue calls.
RECURSIVE updateLoop(_, _, _, _, _, _, _)
\* the update loop leaving after the first row it has updated
updateRowAndStop(sch, rs, i, condition, updates, order, updatedCount, s) ==
    IF s.threw THEN Thrown(s.what, [rs EXCEPT ![i] = s.row])
    ELSE Done(updatedCount + 1, [rs EXCEPT ![i] = s.row])

updateRow(sch, rs, i, condition, updates, order, updatedCount, s) ==
    IF s.threw THEN Thrown(s.what, [rs EXCEPT ![i] = s.row])
    ELSE updateLoop(sch, [rs EXCEPT ![i] = s.row], i + 1, condition, updates, order,
                    updatedCount + 1)

updateStep(sch, rs, i, condition, updates, order, updatedCount, c) ==
    IF c.threw THEN Thrown(c.what, rs)
    ELSE IF c.value
    THEN updateRow(sch, rs, i, condition, updates, order, updatedCount,
                   setValues(sch, rs[i], updates, order, 1))
    ELSE updateLoop(sch, rs, i + 1, condition, updates, order, updatedCount)

updateLoop(sch, rs, i, condition, updates, order, updatedCount) ==
    IF i > Len(rs) THEN Done(updatedCount, rs)
    ELSE updateStep(sch, rs, i, condition, updates, order, updatedCount,
                    CallCondition(condition, rs[i], sch))

updateRows(sch, rs, condition, updates, order) ==
    IF validateUpdates(sch, updates).threw THEN Thrown("invalid_argument", rs)
    ELSE updateLoop(sch, rs, 1, condition, updates, order, 0)

(***************************************************************************)
(* std::remove_if as the standard libraries implement it: find the first   *)
(* match, then move every later non-matching row down.  A moved-from Row   *)
(* is in a valid but unspecified state: MovedFromStates.                   *)
(***************************************************************************)
MovedFromStates == {"empty", "unchanged", "swapped"}

\* a remove_if that keeps the first rows instead of moving the survivors down
MoveAssignNothing(rs, result, first, mf) == rs

\* *result = std::move(*first)
MoveAssign(rs, result, first, mf) ==
    [rs EXCEPT ![result] = rs[first],
               ![first] = CASE mf = "empty" -> <<>>
                            [] mf = "unchanged" -> rs[first]
                            [] OTHER -> rs[result]]

\* std::find_if: the first index whose row matches, Len + 1 if none
RECURSIVE findIf(_, _, _, _)
findIfStep(rs, first, condition, sch, c) ==
    IF c.threw THEN c
    ELSE IF c.value THEN Ok(first)
    ELSE findIf(rs, first + 1, condition, sch)

findIf(rs, first, condition, sch) ==
    IF first > Len(rs) THEN Ok(first)
    ELSE findIfStep(rs, first, condition, sch, CallCondition(condition, rs[first], sch))

RECURSIVE removeLoop(_, _, _, _, _, _)
removeStep(rs, result, first, condition, sch, mf, c) ==
    IF c.threw THEN [threw |-> TRUE, what |-> c.what, newEnd |-> result, rows |-> rs]
    ELSE IF ~c.value
    THEN removeLoop(MoveAssign(rs, result, first, mf), result + 1, first + 1,
                    condition, sch, mf)
    ELSE removeLoop(rs, result, first + 1, condition, sch, mf)

removeLoop(rs, result, first, condition, sch, mf) ==
    IF first > Len(rs) THEN [threw |-> FALSE, what |-> "", newEnd |-> result, rows |-> rs]
    ELSE removeStep(rs, result, first, condition, sch, mf,
                    CallCondition(condition, rs[first], sch))

\* f is find_if's outcome
removeFrom(rs, condition, sch, mf, f) ==
    IF f.threw THEN [threw |-> TRUE, what |-> f.what, newEnd |-> 1, rows |-> rs]
    ELSE IF f.value > Len(rs)
    THEN [threw |-> FALSE, what |-> "", newEnd |-> f.value, rows |-> rs]
    ELSE removeLoop(rs, f.value, f.value + 1, condition, sch, mf)

remove_if(rs, condition, sch, mf) ==
    removeFrom(rs, condition, sch, mf, findIf(rs, 1, condition, sch))

\* a deleteRows that returns the count and leaves the removed rows in place
eraseNothing(rs, r) ==
    IF r.threw THEN Thrown(r.what, r.rows)
    ELSE Done(Len(rs) - (r.newEnd - 1), r.rows)

\* table.cpp:215-217; rows.erase(newEnd, rows.end()) runs only when remove_if
\* returned: r is its outcome
erase(rs, r) ==
    IF r.threw THEN Thrown(r.what, r.rows)
    ELSE Done(Len(rs) - (r.newEnd - 1), SubSeq(r.rows, 1, r.newEnd - 1))

\* table.cpp:208-218
deleteRows(sch, rs, condition, mf) == erase(rs, remove_if(rs, condition, sch, mf))

\* table.cpp:104-128, the projection of every row on the named columns
projectRows(sch, rs, columnNames) ==
    IF \E k \in 1..Len(columnNames) : ~hasColumn(sch, columnNames[k])
    THEN Throw("invalid_argument")
    ELSE Ok([i \in 1..Len(rs) |->
               [k \in 1..Len(columnNames) |-> rs[i][findColumnIndex(sch, columnNames[k])]]])

\* selectRows without the "*" case
selectRowsNoWildcard(sch, rs, columnNames) == projectRows(sch, rs, columnNames)

\* table.cpp:98-129, selectRows without a predicate
selectRows(sch, rs, columnNames) ==
    IF Len(columnNames) = 1 /\ columnNames[1] = "*" THEN Ok(rs)
    ELSE projectRows(sch, rs, columnNames)

(***************************************************************************)
(* The inputs the calls are made with.                                     *)
(***************************************************************************)
TableSchema == <<Column("a", "INT"), Column("b", "STR")>>

\* every row of two values, and rows that are too short or too long
RowInputs ==
    {<<v, w>> : v \in Values, w \in Values}
    \cup {<<>>} \cup {<<v>> : v \in Values}
    \cup {<<IntValue(n), StrValue(s), IntValue(1)>> : n \in Ints, s \in Texts}

AEq1 == Comparison(ColumnRef(<<"a">>), "=", Literal(IntValue(1)))
BEqX == Comparison(ColumnRef(<<"b">>), "=", Literal(StrValue("x")))
\* a column the table does not have
NoColEq1 == Comparison(ColumnRef(<<"nocol">>), "=", Literal(IntValue(1)))
\* an integer column compared with a text
AEqX == Comparison(ColumnRef(<<"a">>), "=", Literal(StrValue("x")))

Atoms == {AEq1, BEqX, NoColEq1, AEqX}

Conditions ==
    {NullCondition} \cup Atoms
    \cup {Logical(l, o, r) : l \in {AEq1, BEqX}, o \in {"AND", "OR"}, r \in Atoms}
    \cup {Logical(AEq1, "OR", Logical(BEqX, "AND", r)) : r \in {NoColEq1, AEqX}}
    \cup {Logical(AEq1, "AND", Logical(BEqX, "OR", NoColEq1))}

UpdateMaps ==
    {[a |-> IntValue(1)], [a |-> IntValue(2)], [b |-> StrValue("x")], [b |-> StrValue("y")],
     [a |-> StrValue("x")], [b |-> IntValue(1)], [nocol |-> IntValue(1)],
     [a |-> IntValue(2), b |-> StrValue("y")], [a |-> IntValue(1), b |-> StrValue("x")],
     [a |-> IntValue(2), nocol |-> IntValue(1)], [a |-> IntValue(2), b |-> IntValue(2)]}

\* the orders in which an unordered_map with these keys can be iterated
Orders(S) ==
    {o \in [1..Cardinality(S) -> S] : \A i, j \in 1..Cardinality(S) : o[i] = o[j] => i = j}

(***************************************************************************)
(* The calls.                                                              *)
(***************************************************************************)
OtherUnchanged == UNCHANGED <<schema, tables, tokens_, srcTree, input, txn, file>>

\* the table after a call: r is the call's outcome
Called(c, r) ==
    /\ rows' = r.rows
    /\ before' = rows
    /\ call' = c
    /\ ret' = [threw |-> r.threw, what |-> r.what, value |-> r.value]
    /\ inserted' = IF c.op = "insertRow" /\ onlyInserts
                   THEN (IF r.threw THEN inserted ELSE Append(inserted, c.row))
                   ELSE <<>>
    /\ onlyInserts' = (onlyInserts /\ c.op = "insertRow")
    /\ OtherUnchanged

\* Table::insertRow, table.cpp:88-91
InsertRow(row) ==
    /\ call.op = "none"
    /\ Len(rows) < MaxRows
    /\ Called([op |-> "insertRow", row |-> row],
              insertRow(rows, row, validateRow(schema, row)))

\* Table::updateRows, table.cpp:175-205
UpdateRows(condition, updates, order) ==
    /\ call.op = "none"
    /\ Called([op |-> "updateRows", condition |-> condition, updates |-> updates],
           updateRows(schema, rows, condition, updates, order))

\* Table::deleteRows, table.cpp:208-218
DeleteRows(condition, mf) ==
    /\ call.op = "none"
    /\ Called([op |-> "deleteRows", condition |-> condition],
           deleteRows(schema, rows, condition, mf))

Insert == \E row \in RowInputs : InsertRow(row)
Update ==
    \E condition \in Conditions, updates \in UpdateMaps :
        \E order \in Orders(DOMAIN updates) :
            UpdateRows(condition, updates, order)
Delete == \E condition \in Conditions, mf \in MovedFromStates : DeleteRows(condition, mf)

\* the call has returned or thrown to its caller, which may make the next call
Return ==
    /\ call.op # "none"
    /\ call' = [op |-> "none"]
    /\ ret' = Ok(<<>>)
    /\ before' = <<>>
    /\ UNCHANGED <<schema, rows, inserted, onlyInserts, tables, tokens_, srcTree, input, txn, file>>

\* a Table as its constructor leaves it (table.cpp:10-18)
Init ==
    /\ schema = TableSchema
    /\ rows = <<>>
    /\ before = <<>>
    /\ inserted = <<>>
    /\ onlyInserts = TRUE
    /\ tables = <<>>
    /\ tokens_ = <<>>
    /\ srcTree = NullCondition
    /\ input = NoInput
    /\ txn = NoTransaction
    /\ file = <<>>
    /\ call = [op |-> "none"]
    /\ ret = Ok(<<>>)

Next == Insert \/ Update \/ Delete \/ Return

Spec == Init /\ [][Next]_vars

\* a Table on which only insertRow and updateRows are called
NextInsUpd == Insert \/ Update \/ Return

SpecInsUpd == Init /\ [][NextInsUpd]_vars


(***************************************************************************)
(* The claims about the Table.                                             *)
(***************************************************************************)
RowMatchesSchema(sch, row) ==
    /\ Len(row) = Len(sch)
    /\ \A i \in 1..Len(sch) : row[i].type = sch[i].type

UpdateMapValid(sch, updates) ==
    \A c \in DOMAIN updates :
        \E i \in 1..Len(sch) : sch[i].name = c /\ sch[i].type = updates[c].type

\* the predicate returns true on the row
Satisfies(condition, row) ==
    /\ ~CallCondition(condition, row, schema).threw
    /\ CallCondition(condition, row, schema).value

Raises(condition, row) == CallCondition(condition, row, schema).threw

\* C1: after any sequence of insertRow and updateRows calls, accepted or
\* rejected, every stored row has as many values as the schema has columns and
\* each value has the type of its column.
C1_RowsMatchSchema == \A i \in 1..Len(rows) : RowMatchesSchema(schema, rows[i])

\* an updateRows call that threw after it had changed a row already
C1_Witness ==
    /\ call.op = "updateRows"
    /\ ret.threw
    /\ Len(rows) >= 2
    /\ rows # before

\* C2: an UPDATE that raises an error, also one raised while the WHERE condition
\* is evaluated on some row, leaves every row as it was.
C2_FailedUpdateChangesNothing ==
    (call.op = "updateRows" /\ ret.threw) => rows = before

\* C3: a DELETE whose predicate raises on some row leaves the table with the
\* rows it had: same number, same values, same order.
C3_FailedDeleteChangesNothing ==
    (call.op = "deleteRows" /\ ret.threw) => rows = before

\* C4: insertRow appends the row as the last row when its length is the
\* schema's and every value has its column's type; otherwise it raises and the
\* rows are unchanged.
C4_InsertAppendsOrRejects ==
    call.op = "insertRow" =>
        IF RowMatchesSchema(schema, call.row)
        THEN ~ret.threw /\ rows = Append(before, call.row)
        ELSE ret.threw /\ rows = before

\* a row of the right length with a value of the wrong type, rejected by a
\* table that holds rows
C4_Witness ==
    /\ call.op = "insertRow"
    /\ Len(call.row) = Len(schema)
    /\ ret.threw
    /\ Len(rows) >= 1

\* C5: updateRows with a map in which some column does not exist or some
\* value's type is not its column's raises and leaves every row unchanged, also
\* when other entries are valid and rows match the predicate.
C5_InvalidUpdateMapRejected ==
    (call.op = "updateRows" /\ ~UpdateMapValid(schema, call.updates)) =>
        ret.threw /\ rows = before

\* a map with a valid and an invalid entry, and a row the predicate matches
C5_Witness ==
    /\ call.op = "updateRows"
    /\ ~UpdateMapValid(schema, call.updates)
    /\ \E c \in DOMAIN call.updates : UpdateMapValid(schema, [d \in {c} |-> call.updates[d]])
    /\ \E i \in 1..Len(before) : Satisfies(call.condition, before[i])
    /\ ret.threw

\* C8: after successful insertRow calls only, selectRows({"*"}) returns the
\* inserted rows, unchanged, in the order of insertion.
C8_SelectAllReturnsInserted ==
    onlyInserts => selectRows(schema, rows, <<"*">>) = Ok(inserted)

\* two different rows inserted, and a third one rejected
C8_Witness ==
    /\ onlyInserts
    /\ Len(inserted) >= 2
    /\ inserted[1] # inserted[2]
    /\ call.op = "insertRow"
    /\ ret.threw

\* C9: a successful updateRows(p, updates) sets each named column to the given
\* value in every row that satisfies p, leaves the other columns of those rows
\* and the other rows unchanged, keeps number and order of the rows, returns
\* the number of rows that satisfied p, and a select of an updated column
\* returns the new value.
C9_UpdateSetsMatchingRows ==
    (call.op = "updateRows" /\ ~ret.threw) =>
        /\ Len(rows) = Len(before)
        /\ \A i \in 1..Len(before) :
              IF Satisfies(call.condition, before[i])
              THEN /\ Len(rows[i]) = Len(schema)
                   /\ \A j \in 1..Len(schema) :
                         rows[i][j] = IF schema[j].name \in DOMAIN call.updates
                                      THEN call.updates[schema[j].name]
                                      ELSE before[i][j]
                   /\ \A c \in DOMAIN call.updates :
                         selectRows(schema, rows, <<c>>).value[i] = <<call.updates[c]>>
              ELSE rows[i] = before[i]
        /\ ret.value = Cardinality({i \in 1..Len(before) : Satisfies(call.condition, before[i])})

\* two columns set in some rows but not in all
C9_Witness ==
    /\ call.op = "updateRows"
    /\ ~ret.threw
    /\ Cardinality(DOMAIN call.updates) = 2
    /\ ret.value >= 2
    /\ ret.value < Len(rows)
    /\ rows # before

\* the rows the predicate does not match, in their order
RECURSIVE Survivors(_, _)
Survivors(rs, condition) ==
    IF rs = <<>> THEN <<>>
    ELSE (IF Satisfies(condition, Head(rs)) THEN <<>> ELSE <<Head(rs)>>)
         \o Survivors(Tail(rs), condition)

\* C10: deleteRows(p) with a predicate that does not raise removes the rows
\* that satisfy p, keeps the others unchanged in their order, and returns the
\* number of rows removed.
C10_DeleteRemovesMatchingRows ==
    (call.op = "deleteRows" /\ ~ret.threw) =>
        /\ rows = Survivors(before, call.condition)
        /\ ret.value = Len(before) - Len(rows)
        /\ ret.value = Cardinality({i \in 1..Len(before) : Satisfies(call.condition, before[i])})

\* the first row removed, two different rows after it kept
C10_Witness ==
    /\ call.op = "deleteRows"
    /\ ~ret.threw
    /\ ret.value = 1
    /\ Len(before) = 3
    /\ Satisfies(call.condition, before[1])
    /\ before[2] # before[3]


(***************************************************************************)
(* parser.cpp: the condition parser.  A Token is its type and its value;   *)
(* `cur` is Parser::current_, the number of tokens consumed.  A parse      *)
(* function returns ok = FALSE where the code throws a ParseError.         *)
(***************************************************************************)
Token(t) == [type |-> t, str |-> "", int |-> 0]
StrToken(t, s) == [type |-> t, str |-> s, int |-> 0]
IntToken(n) == [type |-> "INTEGER", str |-> "", int |-> n]

\* parser.cpp:13-19
peek(toks, cur) == IF cur >= Len(toks) THEN Token("END_OF_FILE") ELSE toks[cur + 1]

\* parser.cpp:9-11
isAtEnd(toks, cur) == cur >= Len(toks) \/ peek(toks, cur).type = "END_OF_FILE"

\* parser.cpp:29-32, the position after advance()
advance(toks, cur) == IF ~isAtEnd(toks, cur) THEN cur + 1 ELSE cur

\* parser.cpp:34-37
check(toks, cur, type) == ~isAtEnd(toks, cur) /\ peek(toks, cur).type = type

Parsed(node, cur) == [ok |-> TRUE, node |-> node, cur |-> cur]
ParseError(cur) == [ok |-> FALSE, node |-> NullCondition, cur |-> cur]

\* parser.cpp:348-355 and 386-392: identifier ['.' identifier], from an
\* identifier at cur; a column name as the sequence of its parts
qualifiedName(toks, cur) ==
    IF check(toks, cur + 1, "DOT")
    THEN (IF check(toks, cur + 2, "IDENTIFIER")
          THEN [ok |-> TRUE, name |-> <<peek(toks, cur).str, peek(toks, cur + 2).str>>,
                cur |-> cur + 3]
          ELSE [ok |-> FALSE, name |-> <<>>, cur |-> cur + 2])
    ELSE [ok |-> TRUE, name |-> <<peek(toks, cur).str>>, cur |-> cur + 1]

ComparisonTokens ==
    {"EQUAL", "NOT_EQUAL", "LESS_THAN", "GREATER_THAN", "LESS_EQUAL", "GREATER_EQUAL"}

\* parser.cpp:361-372
ComparisonOpOf(type) ==
    CASE type = "EQUAL" -> "="
      [] type = "NOT_EQUAL" -> "!="
      [] type = "LESS_THAN" -> "<"
      [] type = "GREATER_THAN" -> ">"
      [] type = "LESS_EQUAL" -> "<="
      [] type = "GREATER_EQUAL" -> ">="

\* parser.cpp:377-399: the right operand at cur, r the outcome of its
\* qualified name when it is an identifier
rightColumn(left, op, r) ==
    IF r.ok THEN Parsed(Comparison(left, op, ColumnRef(r.name)), r.cur) ELSE ParseError(r.cur)

parseRightOperand(toks, cur, left, op) ==
    IF check(toks, cur, "INTEGER")
    THEN Parsed(Comparison(left, op, Literal(IntValue(peek(toks, cur).int))), cur + 1)
    ELSE IF check(toks, cur, "STRING_LITERAL")
    THEN Parsed(Comparison(left, op, Literal(StrValue(peek(toks, cur).str))), cur + 1)
    ELSE IF check(toks, cur, "IDENTIFIER")
    THEN rightColumn(left, op, qualifiedName(toks, cur))
    ELSE ParseError(cur)

\* parser.cpp:359-375: the operator at l.cur, l the outcome of the left name
parseOperator(toks, l) ==
    IF ~l.ok THEN ParseError(l.cur)
    ELSE IF \E t \in ComparisonTokens : check(toks, l.cur, t)
    THEN parseRightOperand(toks, l.cur + 1, ColumnRef(l.name),
                           ComparisonOpOf(peek(toks, l.cur).type))
    ELSE ParseError(l.cur)

\* parser.cpp:342-400
parseComparisonCondition(toks, cur) ==
    IF ~check(toks, cur, "IDENTIFIER") THEN ParseError(cur)
    ELSE parseOperator(toks, qualifiedName(toks, cur))

RECURSIVE parseLogicalOr(_, _), parseLogicalAnd(_, _), parsePrimaryCondition(_, _)
RECURSIVE orLoop(_, _), andLoop(_, _)

\* parser.cpp:293-295
parseCondition(toks, cur) == parseLogicalOr(toks, cur)

\* parser.cpp:334: consume(RIGHT_PAREN) after the condition c in parentheses
closeParen(toks, c) ==
    IF ~c.ok THEN c
    ELSE IF check(toks, c.cur, "RIGHT_PAREN") THEN Parsed(c.node, c.cur + 1)
    ELSE ParseError(c.cur)

\* parser.cpp:330-340
parsePrimaryCondition(toks, cur) ==
    IF check(toks, cur, "LEFT_PAREN") THEN closeParen(toks, parseCondition(toks, cur + 1))
    ELSE parseComparisonCondition(toks, cur)

\* parser.cpp:315 and 318: the operand of AND
andOperand(toks, cur) == parsePrimaryCondition(toks, cur)

\* parser.cpp:318-323: left AND right
andJoin(toks, left, right) ==
    IF ~right.ok THEN right
    ELSE andLoop(toks, Parsed(Logical(left.node, "AND", right.node), right.cur))

\* parser.cpp:317-326, the loop with `left` parsed
andLoop(toks, left) ==
    IF ~left.ok THEN left
    ELSE IF check(toks, left.cur, "AND")
    THEN andJoin(toks, left, andOperand(toks, left.cur + 1))
    ELSE left

\* parser.cpp:314-327
parseLogicalAnd(toks, cur) == andLoop(toks, andOperand(toks, cur))

\* an OR whose operands are primary conditions: OR binding as tight as AND
orOperandPrimary(toks, cur) == parsePrimaryCondition(toks, cur)

\* parser.cpp:299 and 302: the operand of OR
orOperand(toks, cur) == parseLogicalAnd(toks, cur)

\* parser.cpp:302-307: left OR right
orJoin(toks, left, right) ==
    IF ~right.ok THEN right
    ELSE orLoop(toks, Parsed(Logical(left.node, "OR", right.node), right.cur))

\* parser.cpp:301-310, the loop with `left` parsed
orLoop(toks, left) ==
    IF ~left.ok THEN left
    ELSE IF check(toks, left.cur, "OR")
    THEN orJoin(toks, left, orOperand(toks, left.cur + 1))
    ELSE left

\* parser.cpp:298-311
parseLogicalOr(toks, cur) == orLoop(toks, orOperand(toks, cur))

(***************************************************************************)
(* The condition texts the parser is run on: every tree of at most         *)
(* MaxLogicalOps ANDs and ORs over three comparisons, written with the     *)
(* parentheses the precedence rules need ("min") or with every             *)
(* sub-condition in parentheses ("full").                                  *)
(***************************************************************************)
MaxLogicalOps == 2

CmpA == Comparison(ColumnRef(<<"a">>), "=", Literal(IntValue(1)))
CmpB == Comparison(ColumnRef(<<"b">>), "=", Literal(IntValue(2)))
CmpC == Comparison(ColumnRef(<<"c">>), "=", Literal(IntValue(3)))

RECURSIVE TreesWithOps(_)
TreesWithOps(n) ==
    IF n = 0 THEN {CmpA, CmpB, CmpC}
    ELSE UNION {{Logical(l, o, r) : l \in TreesWithOps(k), o \in {"AND", "OR"},
                                    r \in TreesWithOps(n - 1 - k)} : k \in 0..(n - 1)}

ConditionTrees == UNION {TreesWithOps(n) : n \in 0..MaxLogicalOps}

Styles == {"min", "full"}

OpToken(op) ==
    CASE op = "=" -> Token("EQUAL")
      [] op = "!=" -> Token("NOT_EQUAL")
      [] op = "<" -> Token("LESS_THAN")
      [] op = ">" -> Token("GREATER_THAN")
      [] op = "<=" -> Token("LESS_EQUAL")
      [] op = ">=" -> Token("GREATER_EQUAL")

NameTokens(name) ==
    IF Len(name) = 1 THEN <<StrToken("IDENTIFIER", name[1])>>
    ELSE <<StrToken("IDENTIFIER", name[1]), Token("DOT"), StrToken("IDENTIFIER", name[2])>>

OperandTokens(cv) ==
    IF cv.type = "COLUMN" THEN NameTokens(cv.column)
    ELSE IF cv.literal.type = "INT" THEN <<IntToken(cv.literal.int)>>
    ELSE <<StrToken("STRING_LITERAL", cv.literal.str)>>

InParens(toks) == <<Token("LEFT_PAREN")>> \o toks \o <<Token("RIGHT_PAREN")>>

\* The text of a tree.  "min": an OR operand of an AND is in parentheses, and so
\* is a right operand that is a chain of the same operator.
RECURSIVE Text(_, _)
OperandText(t, style, parens) ==
    IF style = "full" \/ parens THEN InParens(Text(t, style)) ELSE Text(t, style)

Text(t, style) ==
    IF t.kind = "comparison"
    THEN NameTokens(t.left.column) \o <<OpToken(t.op)>> \o OperandTokens(t.right)
    ELSE OperandText(t.left, style, t.op = "AND" /\ t.left.kind = "logical" /\ t.left.op = "OR")
         \o <<Token(t.op)>>
         \o OperandText(t.right, style,
                        t.right.kind = "logical" /\ (t.op = "AND" \/ t.right.op = "OR"))

\* a Parser constructed on the tokens of a condition (parser.cpp:6)
InitParse ==
    /\ schema = <<Column("a", "INT"), Column("b", "INT"), Column("c", "INT")>>
    /\ rows = <<>>
    /\ before = <<>>
    /\ inserted = <<>>
    /\ onlyInserts = TRUE
    /\ tables = <<>>
    /\ srcTree \in ConditionTrees
    /\ \E style \in Styles : tokens_ = Text(srcTree, style) \o <<Token("END_OF_FILE")>>
    /\ input = NoInput
    /\ txn = NoTransaction
    /\ file = <<>>
    /\ call = [op |-> "none"]
    /\ ret = Ok(<<>>)

\* r is parseCondition's outcome
ParseReturned(r) ==
    /\ call' = [op |-> "parseCondition"]
    /\ ret' = [threw |-> ~r.ok, what |-> IF r.ok THEN "" ELSE "ParseError",
               value |-> [node |-> r.node, cur |-> r.cur]]
    /\ UNCHANGED <<schema, rows, before, inserted, onlyInserts, tables, tokens_, srcTree, input, txn, file>>

\* Parser::parseCondition on the Parser's tokens
ParseCondition ==
    /\ call.op = "none"
    /\ ParseReturned(parseCondition(tokens_, 0))

NextParse == ParseCondition

SpecParse == InitParse /\ [][NextParse]_vars

\* a = 1 OR b = 2 AND c = 3
TextOrAnd ==
    Text(CmpA, "min") \o <<Token("OR")>> \o Text(CmpB, "min") \o <<Token("AND")>>
    \o Text(CmpC, "min") \o <<Token("END_OF_FILE")>>

\* (a = 1 OR b = 2) AND c = 3
TextParenOrAnd ==
    InParens(Text(CmpA, "min") \o <<Token("OR")>> \o Text(CmpB, "min"))
    \o <<Token("AND")>> \o Text(CmpC, "min") \o <<Token("END_OF_FILE")>>

\* the row a = 1, b = 9, c = 9
Row199 == <<IntValue(1), IntValue(9), IntValue(9)>>

\* C7: the parser builds the tree in which AND binds tighter than OR, a chain
\* of one operator groups to the left and a condition in parentheses is one
\* operand: the text of every tree parses to that tree, up to the end of the
\* tokens; a=1 OR b=2 AND c=3 is a=1 OR (b=2 AND c=3), true on the row
\* a=1, b=9, c=9, where (a=1 OR b=2) AND c=3 is false.
C7_ParserBuildsPrecedenceTree ==
    call.op = "parseCondition" =>
        /\ ~ret.threw
        /\ ret.value.node = srcTree
        /\ ret.value.cur = Len(tokens_) - 1
        /\ tokens_ = TextOrAnd =>
              /\ ret.value.node = Logical(CmpA, "OR", Logical(CmpB, "AND", CmpC))
              /\ Condition_evaluate(ret.value.node, Row199, schema) = Ok(TRUE)
        /\ tokens_ = TextParenOrAnd =>
              /\ ret.value.node = Logical(Logical(CmpA, "OR", CmpB), "AND", CmpC)
              /\ Condition_evaluate(ret.value.node, Row199, schema) = Ok(FALSE)

\* a = 1 OR b = 2 AND c = 3 has been parsed
C7_Witness ==
    /\ call.op = "parseCondition"
    /\ tokens_ = TextOrAnd
    /\ ~ret.threw


(***************************************************************************)
(* database.cpp: the Database is `tables`, a map from the names of its     *)
(* tables to their schema and rows.  main.cpp: the execution of a SELECT   *)
(* with a join.  A qualified column name is the sequence of its parts.     *)
(***************************************************************************)
MaxJoinRows == 2

\* the characters of the names the calls are made with, as the classes
\* std::isalpha and std::isalnum tell apart
Chars(name) ==
    CASE name = "L" -> <<"alpha">>
      [] name = "R" -> <<"alpha">>
      [] name = "l" -> <<"alpha">>
      [] name = "9z" -> <<"digit", "alpha">>
      [] name = "_r2" -> <<"underscore", "alpha", "digit">>
      [] name = "a-b" -> <<"alpha", "other", "alpha">>
      [] OTHER -> <<>>

\* a validation that looks at the first character only
validateFirstCharOnly(tableName) ==
    IF Chars(tableName) = <<>> THEN Throw("DatabaseError")
    ELSE IF Chars(tableName)[1] \notin {"alpha", "underscore"} THEN Throw("DatabaseError")
    ELSE Ok(tableName)

\* database.cpp:17-32
validateTableName(tableName) ==
    IF Chars(tableName) = <<>> THEN Throw("DatabaseError")
    ELSE IF Chars(tableName)[1] \notin {"alpha", "underscore"} THEN Throw("DatabaseError")
    ELSE IF \E i \in 1..Len(Chars(tableName)) :
                Chars(tableName)[i] \notin {"alpha", "digit", "underscore"}
    THEN Throw("DatabaseError")
    ELSE Ok(tableName)

\* database.cpp:34-37
normalizeTableName(tableName) == validateTableName(tableName)

\* database.cpp:77-84
hasTable(tbls, tableName) ==
    ~normalizeTableName(tableName).threw /\ tableName \in DOMAIN tbls

NewTable(tableName, sch) == [name |-> tableName, schema |-> sch, rows |-> <<>>]

\* the map with `table` stored under the name
Store(tbls, tableName, table) ==
    [n \in DOMAIN tbls \cup {tableName} |-> IF n = tableName THEN table ELSE tbls[n]]

\* the outcome of a Database call and the tables it leaves
DbDone(v, tbls) == [threw |-> FALSE, what |-> "", value |-> v, tables |-> tbls]
DbThrown(w, tbls) == [threw |-> TRUE, what |-> w, value |-> <<>>, tables |-> tbls]

\* a createTable that replaces a table of the same name
createTableOverwrite(tbls, tableName, sch) ==
    IF normalizeTableName(tableName).threw THEN DbThrown("DatabaseError", tbls)
    ELSE IF sch = <<>> THEN DbThrown("DatabaseError", tbls)
    ELSE IF \E i, j \in 1..Len(sch) : i < j /\ sch[i].name = sch[j].name
    THEN DbThrown("DatabaseError", tbls)
    ELSE DbDone(<<>>, Store(tbls, tableName, NewTable(tableName, sch)))

\* database.cpp:40-63
createTable(tbls, tableName, sch) ==
    IF normalizeTableName(tableName).threw THEN DbThrown("DatabaseError", tbls)
    ELSE IF hasTable(tbls, tableName) THEN DbThrown("TableAlreadyExistsError", tbls)
    ELSE IF sch = <<>> THEN DbThrown("DatabaseError", tbls)
    ELSE IF \E i, j \in 1..Len(sch) : i < j /\ sch[i].name = sch[j].name
    THEN DbThrown("DatabaseError", tbls)
    ELSE DbDone(<<>>, Store(tbls, tableName, NewTable(tableName, sch)))

\* a lookup that hands out an empty table for a name that is not present
getTableOrEmpty(tbls, tableName) ==
    IF normalizeTableName(tableName).threw THEN Throw("DatabaseError")
    ELSE IF tableName \notin DOMAIN tbls
    THEN Ok(NewTable(tableName, <<Column("id", "INT"), Column("dept", "INT")>>))
    ELSE Ok(tbls[tableName])

\* database.cpp:87-107
getTable(tbls, tableName) ==
    IF normalizeTableName(tableName).threw THEN Throw("DatabaseError")
    ELSE IF tableName \notin DOMAIN tbls THEN Throw("TableNotFoundError")
    ELSE Ok(tbls[tableName])

\* database.cpp:123-126, t the outcome of getTable and r of Table::insertRow
insertedInto(tbls, tableName, t, r) ==
    IF r.threw THEN DbThrown(r.what, tbls)
    ELSE DbDone(<<>>, Store(tbls, tableName, [t.value EXCEPT !.rows = r.rows]))

insertIntoTable(tbls, tableName, values, t) ==
    IF t.threw THEN DbThrown(t.what, tbls)
    ELSE insertedInto(tbls, tableName, t,
                      insertRow(t.value.rows, values, validateRow(t.value.schema, values)))

insertInto(tbls, tableName, values) ==
    insertIntoTable(tbls, tableName, values, getTable(tbls, tableName))

\* database.cpp:133-137, t the outcome of getTable
selectFromTable(t, columns) ==
    IF t.threw THEN t ELSE selectRows(t.value.schema, t.value.rows, columns)

selectFrom(tbls, tableName, columns) == selectFromTable(getTable(tbls, tableName), columns)

\* a SelectStatement with its JoinClauses (statement.hpp)
JoinClause(tableName, on) == [tableName |-> tableName, on |-> on]
SelectStatement(columns, tableName, joins, where) ==
    [columns |-> columns, tableName |-> tableName, joins |-> joins, where |-> where]

\* ast.hpp:215-217: SELECT * is the empty column list
isSelectAll(stmt) == stmt.columns = <<>>

\* main.cpp:313-328
combineRows(leftRow, rightRow) == leftRow \o rightRow

\* main.cpp:287-311
evaluateJoinCondition(condition, leftTable, leftRow, rightTable, rightRow) ==
    Condition_evaluate(condition, combineRows(leftRow, rightRow),
                       leftTable.schema \o rightTable.schema)

RECURSIVE joinRowsLoop(_, _, _, _, _, _)

\* main.cpp:279-283, c the outcome of the ON condition on the pair
joinRowsStep(stmt, mainTable, mainRow, joinTable, j, resultRows, c) ==
    IF c.threw THEN c
    ELSE joinRowsLoop(stmt, mainTable, mainRow, joinTable, j + 1,
                      IF c.value
                      THEN Append(resultRows, combineRows(mainRow, joinTable.rows[j]))
                      ELSE resultRows)

\* main.cpp:278-284, from the j-th row of the joined table
joinRowsLoop(stmt, mainTable, mainRow, joinTable, j, resultRows) ==
    IF j > Len(joinTable.rows) THEN Ok(resultRows)
    ELSE joinRowsStep(stmt, mainTable, mainRow, joinTable, j, resultRows,
                      evaluateJoinCondition(stmt.joins[1].on, mainTable, mainRow,
                                            joinTable, joinTable.rows[j]))

\* main.cpp:273-275, t the outcome of getTable on the first join's table
joinWithTable(stmt, mainTable, mainRow, resultRows, t) ==
    IF t.threw THEN t
    ELSE joinRowsLoop(stmt, mainTable, mainRow, t.value, 1, resultRows)

\* an executor that joins with the table of the last clause
executeJoinForRowLastClause(tbls, stmt, mainTable, mainRow, resultRows) ==
    IF stmt.joins = <<>> THEN Ok(Append(resultRows, mainRow))
    ELSE joinWithTable(stmt, mainTable, mainRow, resultRows,
                       getTable(tbls, stmt.joins[Len(stmt.joins)].tableName))

\* main.cpp:264-285
executeJoinForRow(tbls, stmt, mainTable, mainRow, resultRows) ==
    IF stmt.joins = <<>> THEN Ok(Append(resultRows, mainRow))
    ELSE joinWithTable(stmt, mainTable, mainRow, resultRows,
                       getTable(tbls, stmt.joins[1].tableName))

RECURSIVE mainRowsLoop(_, _, _, _, _)

mainRowsStep(tbls, stmt, mainTable, i, r) ==
    IF r.threw THEN r ELSE mainRowsLoop(tbls, stmt, mainTable, i + 1, r.value)

\* main.cpp:215-217, from the i-th row of the base table
mainRowsLoop(tbls, stmt, mainTable, i, resultRows) ==
    IF i > Len(mainTable.rows) THEN Ok(resultRows)
    ELSE mainRowsStep(tbls, stmt, mainTable, i,
                      executeJoinForRow(tbls, stmt, mainTable, mainTable.rows[i], resultRows))

QualifiedNames(tableName, sch) == [i \in 1..Len(sch) |-> <<tableName, sch[i].name>>]

RECURSIVE joinColumnNames(_, _, _, _)

joinColumnNamesStep(tbls, stmt, k, columnNames, t) ==
    IF t.threw THEN t
    ELSE joinColumnNames(tbls, stmt, k + 1,
                         columnNames \o QualifiedNames(stmt.joins[k].tableName, t.value.schema))

\* main.cpp:341-347, from the k-th join clause
joinColumnNames(tbls, stmt, k, columnNames) ==
    IF k > Len(stmt.joins) THEN Ok(columnNames)
    ELSE joinColumnNamesStep(tbls, stmt, k, columnNames,
                             getTable(tbls, stmt.joins[k].tableName))

\* main.cpp:334-338, t the outcome of getTable on the base table
mainColumnNames(tbls, stmt, t) ==
    IF t.threw THEN t
    ELSE joinColumnNames(tbls, stmt, 1, QualifiedNames(stmt.tableName, t.value.schema))

\* main.cpp:330-350
buildJoinColumnNames(tbls, stmt) == mainColumnNames(tbls, stmt, getTable(tbls, stmt.tableName))

\* main.cpp:229-235: the schema the WHERE condition is evaluated against
whereSchema(allColumnNames) ==
    [k \in 1..Len(allColumnNames) |-> Column(allColumnNames[k][Len(allColumnNames[k])], "INT")]

RECURSIVE whereLoop(_, _, _, _, _)

\* main.cpp:238-240, c the outcome of the WHERE condition on the i-th row
whereKeep(tbls, stmt, resultRows, i, filteredRows, c) ==
    IF c.threw THEN c
    ELSE whereLoop(tbls, stmt, resultRows, i + 1,
                   IF c.value THEN Append(filteredRows, resultRows[i]) ELSE filteredRows)

\* main.cpp:226-237, n the outcome of buildJoinColumnNames
whereStep(tbls, stmt, resultRows, i, filteredRows, n) ==
    IF n.threw THEN n
    ELSE whereKeep(tbls, stmt, resultRows, i, filteredRows,
                   Condition_evaluate(stmt.where, resultRows[i], whereSchema(n.value)))

\* main.cpp:223-241, from the i-th combined row
whereLoop(tbls, stmt, resultRows, i, filteredRows) ==
    IF i > Len(resultRows) THEN Ok(filteredRows)
    ELSE whereStep(tbls, stmt, resultRows, i, filteredRows, buildJoinColumnNames(tbls, stmt))

\* main.cpp:220-243, r the outcome of the join
applyWhere(tbls, stmt, r) ==
    IF r.threw THEN r
    ELSE IF stmt.where = NullCondition THEN r
    ELSE whereLoop(tbls, stmt, r.value, 1, <<>>)

\* the first position of the name in the list, or 0 (std::find)
find(allColumnNames, selectedCol) ==
    LET hits == {k \in 1..Len(allColumnNames) : allColumnNames[k] = selectedCol}
    IN  IF hits = {} THEN 0 ELSE CHOOSE k \in hits : \A m \in hits : k <= m

\* main.cpp:365-371
RECURSIVE selectedIndices(_, _, _)
selectedIndices(allColumnNames, selectedColumns, k) ==
    IF k > Len(selectedColumns) THEN <<>>
    ELSE (IF find(allColumnNames, selectedColumns[k]) # 0
          THEN <<find(allColumnNames, selectedColumns[k])>> ELSE <<>>)
         \o selectedIndices(allColumnNames, selectedColumns, k + 1)

\* main.cpp:381-388: the values of a row at the indices within it
RECURSIVE selectedValues(_, _, _)
selectedValues(row, indices, k) ==
    IF k > Len(indices) THEN <<>>
    ELSE (IF indices[k] <= Len(row) THEN <<row[indices[k]]>> ELSE <<>>)
         \o selectedValues(row, indices, k + 1)

\* main.cpp:379-394
RECURSIVE extractRows(_, _, _)
extractRows(rs, indices, i) ==
    IF i > Len(rs) THEN <<>>
    ELSE (IF selectedValues(rs[i], indices, 1) # <<>>
          THEN <<selectedValues(rs[i], indices, 1)>> ELSE <<>>)
         \o extractRows(rs, indices, i + 1)

\* main.cpp:352-397
extractSelectedColumns(rs, allColumnNames, selectedColumns) ==
    IF selectedColumns = <<>> \/ rs = <<>> THEN rs
    ELSE IF allColumnNames = <<>> THEN <<>>
    ELSE IF selectedIndices(allColumnNames, selectedColumns, 1) = <<>> THEN <<>>
    ELSE extractRows(rs, selectedIndices(allColumnNames, selectedColumns, 1), 1)

\* main.cpp:251-261: what printTable is given
printed(stmt, resultRows, allColumnNames) ==
    Ok([columns |-> IF isSelectAll(stmt) THEN allColumnNames ELSE stmt.columns,
        rows |-> extractSelectedColumns(resultRows, allColumnNames,
                                        IF isSelectAll(stmt) THEN allColumnNames
                                        ELSE stmt.columns)])

\* main.cpp:246, r the filtered rows and n the outcome of buildJoinColumnNames
projectJoin(stmt, r, n) ==
    IF r.threw THEN r
    ELSE IF n.threw THEN n
    ELSE printed(stmt, r.value, n.value)

\* main.cpp:208-209, t the outcome of getTable on the base table
joinFrom(tbls, stmt, t) ==
    IF t.threw THEN t
    ELSE projectJoin(stmt,
                     applyWhere(tbls, stmt, mainRowsLoop(tbls, stmt, t.value, 1, <<>>)),
                     buildJoinColumnNames(tbls, stmt))

\* main.cpp:206-262: the table printed, or the error execute() reports
executeSelectWithJoin(tbls, stmt) == joinFrom(tbls, stmt, getTable(tbls, stmt.tableName))

(***************************************************************************)
(* The statements the executor is run on: two tables that both have a      *)
(* column `id`, joined in either direction on any pair of their columns.   *)
(***************************************************************************)
TableNames == {"L", "R"}
LSchema == <<Column("id", "INT"), Column("dept", "INT")>>
RSchema == <<Column("id", "INT"), Column("name", "STR")>>
SchemaInputs == {LSchema, RSchema, <<>>}
JoinValues == {IntValue(1), IntValue(2), StrValue("x")}
JoinRowInputs == {<<v, w>> : v \in JoinValues, w \in JoinValues}
ColumnNames == {"id", "dept", "name"}

OnConditions(l, r) ==
    {Comparison(ColumnRef(<<l, x>>), "=", ColumnRef(<<r, y>>)) : x \in ColumnNames, y \in ColumnNames}

WhereConditions ==
    {NullCondition, Comparison(ColumnRef(<<"L", "dept">>), "=", Literal(IntValue(1)))}

ColumnLists == {<<>>, <<<<"R", "id">>, <<"L", "dept">>>>, <<<<"L", "id">>, <<"L", "nocol">>>>}

SelectStatements ==
    UNION {{SelectStatement(columns, l, <<JoinClause(r, on)>>, where) :
               columns \in ColumnLists, on \in OnConditions(l, r), where \in WhereConditions} :
           l \in TableNames, r \in TableNames}

\* the Database after a call: r is the call's outcome
DbCalled(c, r) ==
    /\ tables' = r.tables
    /\ before' = tables
    /\ call' = c
    /\ ret' = [threw |-> r.threw, what |-> r.what, value |-> r.value]
    /\ UNCHANGED <<schema, rows, inserted, onlyInserts, tokens_, srcTree, input, txn, file>>

\* Database::createTable, database.cpp:40-63
CreateTable(tableName, sch) ==
    /\ call.op = "none"
    /\ DbCalled([op |-> "createTable", tableName |-> tableName, schema |-> sch],
                createTable(tables, tableName, sch))

\* Database::insertInto, database.cpp:123-126
InsertInto(tableName, values) ==
    /\ call.op = "none"
    /\ tableName \in DOMAIN tables => Len(tables[tableName].rows) < MaxJoinRows
    /\ DbCalled([op |-> "insertInto", tableName |-> tableName, values |-> values],
                insertInto(tables, tableName, values))

\* SQLExecutor::executeSelectWithJoin, main.cpp:206-262
ExecuteSelectWithJoin(stmt) ==
    /\ call.op = "none"
    /\ call' = [op |-> "executeSelectWithJoin", stmt |-> stmt]
    /\ ret' = executeSelectWithJoin(tables, stmt)
    /\ UNCHANGED <<schema, rows, before, inserted, onlyInserts, tables, tokens_, srcTree, input, txn, file>>

Create == \E tableName \in TableNames \cup {"9z", ""}, sch \in SchemaInputs : CreateTable(tableName, sch)
InsertValues == \E tableName \in TableNames, values \in JoinRowInputs : InsertInto(tableName, values)
SelectJoin == \E stmt \in SelectStatements : ExecuteSelectWithJoin(stmt)

\* a Database as its constructor leaves it (database.cpp:10-14): no tables
InitJoin ==
    /\ schema = <<>>
    /\ rows = <<>>
    /\ before = <<>>
    /\ inserted = <<>>
    /\ onlyInserts = TRUE
    /\ tables = <<>>
    /\ tokens_ = <<>>
    /\ srcTree = NullCondition
    /\ input = NoInput
    /\ txn = NoTransaction
    /\ file = <<>>
    /\ call = [op |-> "none"]
    /\ ret = Ok(<<>>)

NextJoin == Create \/ InsertValues \/ SelectJoin \/ Return

SpecJoin == InitJoin /\ [][NextJoin]_vars


\* the combined rows of the pairs (l, r), l the i-th row of the base table or
\* a later one, with l's value in column x equal to r's value in column y, in
\* the base table's row order and then the joined table's
RECURSIVE MatchingPairs(_, _, _, _, _)
MatchingOf(l, rightRows, x, y) ==
    LET keep(j) == IF ValueEquals(l[x], rightRows[j][y]) THEN <<l \o rightRows[j]>> ELSE <<>>
        from[j \in 1..(Len(rightRows) + 1)] ==
            IF j > Len(rightRows) THEN <<>> ELSE keep(j) \o from[j + 1]
    IN  from[1]

MatchingPairs(leftRows, rightRows, x, y, i) ==
    IF i > Len(leftRows) THEN <<>>
    ELSE MatchingOf(leftRows[i], rightRows, x, y) \o MatchingPairs(leftRows, rightRows, x, y, i + 1)

\* SELECT * FROM l INNER JOIN r ON l.x = r.y with no WHERE, both tables present
\* and x an integer column of l, y an integer column of r
IsEquiJoin(c) ==
    /\ c.op = "executeSelectWithJoin"
    /\ isSelectAll(c.stmt)
    /\ c.stmt.where = NullCondition
    /\ c.stmt.tableName \in DOMAIN tables
    /\ c.stmt.joins[1].tableName \in DOMAIN tables
    /\ c.stmt.tableName # c.stmt.joins[1].tableName
    /\ \E i \in 1..Len(tables[c.stmt.tableName].schema) :
          /\ tables[c.stmt.tableName].schema[i].name = c.stmt.joins[1].on.left.column[2]
          /\ tables[c.stmt.tableName].schema[i].type = "INT"
    /\ \E i \in 1..Len(tables[c.stmt.joins[1].tableName].schema) :
          /\ tables[c.stmt.joins[1].tableName].schema[i].name = c.stmt.joins[1].on.right.column[2]
          /\ tables[c.stmt.joins[1].tableName].schema[i].type = "INT"

\* C6: SELECT * FROM L INNER JOIN R ON L.x = R.y prints exactly the combined
\* rows (L's values, then R's) of the pairs of a row of L and a row of R whose
\* values in L's column x and R's column y are equal, in L's row order and then
\* R's, also when both tables have a column of that name.
C6_JoinPairsNamedColumns ==
    IsEquiJoin(call) =>
        /\ ~ret.threw
        /\ ret.value.rows =
              MatchingPairs(tables[call.stmt.tableName].rows,
                            tables[call.stmt.joins[1].tableName].rows,
                            findColumnIndex(tables[call.stmt.tableName].schema,
                                            call.stmt.joins[1].on.left.column[2]),
                            findColumnIndex(tables[call.stmt.joins[1].tableName].schema,
                                            call.stmt.joins[1].on.right.column[2]),
                            1)

\* the same, for the joins in which the column named for the joined table has a
\* name no column of the base table has
C6_JoinPairsDistinctNames ==
    (/\ IsEquiJoin(call)
     /\ ~hasColumn(tables[call.stmt.tableName].schema, call.stmt.joins[1].on.right.column[2]))
        => C6_JoinPairsNamedColumns


(***************************************************************************)
(* Table::deleteRows called again with the predicate of the call that has  *)
(* just ended, before any other call on the table.                         *)
(***************************************************************************)
\* Table::deleteRows, table.cpp:208-218, after a deleteRows with the same predicate
DeleteRowsAgain(mf) ==
    /\ call.op = "deleteRows"
    /\ Called([op |-> "deleteRowsAgain", condition |-> call.condition,
               firstThrew |-> ret.threw, firstCount |-> ret.value,
               firstBefore |-> before],
              deleteRows(schema, rows, call.condition, mf))

DeleteAgain == \E mf \in MovedFromStates : DeleteRowsAgain(mf)

NextDelTwice == Insert \/ Update \/ Delete \/ DeleteAgain \/ Return

SpecDelTwice == Init /\ [][NextDelTwice]_vars

\* C11: when deleteRows(p) has returned, a second deleteRows(p) made at once
\* returns 0 and leaves the rows as the first call left them, so that the two
\* calls together remove as many rows as the first one.
C11_SecondDeleteRemovesNothing ==
    (call.op = "deleteRowsAgain" /\ ~call.firstThrew) =>
        /\ ~ret.threw
        /\ ret.value = 0
        /\ rows = before
        /\ call.firstCount + ret.value = Len(call.firstBefore) - Len(rows)

\* the first call removed some rows and kept some, the second one has returned
C11_Witness ==
    /\ call.op = "deleteRowsAgain"
    /\ ~call.firstThrew
    /\ call.firstCount >= 1
    /\ Len(rows) >= 1
    /\ ~ret.threw


(***************************************************************************)
(* table.cpp: selectRows with a predicate.  database.cpp: the other calls  *)
(* of the Database, each on the table that getTable finds.                 *)
(***************************************************************************)
RECURSIVE filterLoop(_, _, _, _, _)

\* table.cpp:138-140, c the outcome of the predicate on the i-th row
filterStep(sch, rs, condition, i, filteredRows, c) ==
    IF c.threw THEN c
    ELSE filterLoop(sch, rs, condition, i + 1,
                    IF c.value THEN Append(filteredRows, rs[i]) ELSE filteredRows)

\* table.cpp:137-141, from the i-th row
filterLoop(sch, rs, condition, i, filteredRows) ==
    IF i > Len(rs) THEN Ok(filteredRows)
    ELSE filterStep(sch, rs, condition, i, filteredRows, CallCondition(condition, rs[i], sch))

\* table.cpp:143-171, f the outcome of the filter pass
projectFiltered(sch, columnNames, f) ==
    IF f.threw THEN f
    ELSE IF columnNames = <<>> \/ (Len(columnNames) = 1 /\ columnNames[1] = "*") THEN f
    ELSE projectRows(sch, f.value, columnNames)

\* table.cpp:131-172, selectRows with a predicate
selectRowsWhere(sch, rs, columnNames, condition) ==
    projectFiltered(sch, columnNames, filterLoop(sch, rs, condition, 1, <<>>))

\* a dropTable that reports the table dropped and keeps it
dropTableKeep(tbls, tableName) ==
    IF normalizeTableName(tableName).threw THEN DbThrown("DatabaseError", tbls)
    ELSE DbDone(tableName \in DOMAIN tbls, tbls)

\* database.cpp:66-75
dropTable(tbls, tableName) ==
    IF normalizeTableName(tableName).threw THEN DbThrown("DatabaseError", tbls)
    ELSE IF tableName \in DOMAIN tbls
    THEN DbDone(TRUE, [n \in DOMAIN tbls \ {tableName} |-> tbls[n]])
    ELSE DbDone(FALSE, tbls)

\* database.cpp:139-144, t the outcome of getTable
selectFromTableWhere(t, columns, condition) ==
    IF t.threw THEN t ELSE selectRowsWhere(t.value.schema, t.value.rows, columns, condition)

selectFromWhere(tbls, tableName, columns, condition) ==
    selectFromTableWhere(getTable(tbls, tableName), columns, condition)

\* the Database after a call r of the table t that changes its rows
tableCalled(tbls, tableName, t, r) ==
    [threw |-> r.threw, what |-> r.what, value |-> r.value,
     tables |-> Store(tbls, tableName, [t EXCEPT !.rows = r.rows])]

\* database.cpp:146-151, t the outcome of getTable
updateFoundTable(tbls, tableName, condition, updates, order, t) ==
    IF t.threw THEN DbThrown(t.what, tbls)
    ELSE tableCalled(tbls, tableName, t.value,
                     updateRows(t.value.schema, t.value.rows, condition, updates, order))

updateTable(tbls, tableName, condition, updates, order) ==
    updateFoundTable(tbls, tableName, condition, updates, order, getTable(tbls, tableName))

\* database.cpp:153-157, t the outcome of getTable
deleteFromFoundTable(tbls, tableName, condition, mf, t) ==
    IF t.threw THEN DbThrown(t.what, tbls)
    ELSE tableCalled(tbls, tableName, t.value,
                     deleteRows(t.value.schema, t.value.rows, condition, mf))

deleteFrom(tbls, tableName, condition, mf) ==
    deleteFromFoundTable(tbls, tableName, condition, mf, getTable(tbls, tableName))

\* database.cpp:182-185, t the outcome of getTable; Table::clear, table.hpp:183-185
truncateFoundTable(tbls, tableName, t) ==
    IF t.threw THEN DbThrown(t.what, tbls)
    ELSE DbDone(<<>>, Store(tbls, tableName, [t.value EXCEPT !.rows = <<>>]))

truncateTable(tbls, tableName) == truncateFoundTable(tbls, tableName, getTable(tbls, tableName))


(***************************************************************************)
(* The calls of the Database: names that are valid, empty, digit-first or  *)
(* hold another character; schemas that are valid, empty or name a column  *)
(* twice.                                                                  *)
(***************************************************************************)
NameInputs == {"L", "_r2", "", "9z", "a-b"}
DupSchema == <<Column("id", "INT"), Column("id", "STR")>>
DbSchemaInputs == {LSchema, RSchema, <<>>, DupSchema}
DbRowInputs ==
    {<<IntValue(1), IntValue(1)>>, <<IntValue(2), IntValue(1)>>, <<IntValue(1), StrValue("x")>>,
     <<StrValue("x"), IntValue(1)>>, <<IntValue(1)>>}
IdEq1 == Comparison(ColumnRef(<<"id">>), "=", Literal(IntValue(1)))
DbConditions == {NullCondition, IdEq1, NoColEq1}
DbUpdateMaps ==
    {[c \in {"id"} |-> IntValue(2)], [c \in {"id"} |-> StrValue("x")],
     [c \in {"nocol"} |-> IntValue(1)]}
DbColumnLists == {<<"*">>, <<"id">>, <<"nocol">>}

\* Database::dropTable, database.cpp:66-75
DropTable(tableName) ==
    /\ call.op = "none"
    /\ DbCalled([op |-> "dropTable", tableName |-> tableName], dropTable(tables, tableName))

\* the Database is not changed by a select: r is its outcome
DbRead(c, r) ==
    /\ call' = c
    /\ ret' = r
    /\ before' = tables
    /\ UNCHANGED <<schema, rows, inserted, onlyInserts, tables, tokens_, srcTree, input, txn, file>>

\* Database::selectFrom without a condition, database.cpp:133-137
SelectFrom(tableName, columns) ==
    /\ call.op = "none"
    /\ DbRead([op |-> "selectFrom", tableName |-> tableName, columns |-> columns],
              selectFrom(tables, tableName, columns))

\* Database::selectFrom with a condition, database.cpp:139-144
SelectFromWhere(tableName, columns, condition) ==
    /\ call.op = "none"
    /\ DbRead([op |-> "selectFrom", tableName |-> tableName, columns |-> columns,
               condition |-> condition],
              selectFromWhere(tables, tableName, columns, condition))

\* Database::updateTable, database.cpp:146-151
UpdateTable(tableName, condition, updates, order) ==
    /\ call.op = "none"
    /\ DbCalled([op |-> "updateTable", tableName |-> tableName, condition |-> condition,
                 updates |-> updates],
                updateTable(tables, tableName, condition, updates, order))

\* Database::deleteFrom, database.cpp:153-157
DeleteFrom(tableName, condition, mf) ==
    /\ call.op = "none"
    /\ DbCalled([op |-> "deleteFrom", tableName |-> tableName, condition |-> condition],
                deleteFrom(tables, tableName, condition, mf))

\* Database::truncateTable, database.cpp:182-185
TruncateTable(tableName) ==
    /\ call.op = "none"
    /\ DbCalled([op |-> "truncateTable", tableName |-> tableName],
                truncateTable(tables, tableName))

DbCreate == \E tableName \in NameInputs, sch \in DbSchemaInputs : CreateTable(tableName, sch)
DbDrop == \E tableName \in NameInputs : DropTable(tableName)
DbInsert == \E tableName \in NameInputs, values \in DbRowInputs : InsertInto(tableName, values)
DbSelect == \E tableName \in NameInputs, columns \in DbColumnLists : SelectFrom(tableName, columns)
DbSelectWhere ==
    \E tableName \in NameInputs, columns \in DbColumnLists, condition \in DbConditions :
        SelectFromWhere(tableName, columns, condition)
DbUpdate ==
    \E tableName \in NameInputs, condition \in DbConditions, updates \in DbUpdateMaps :
        \E order \in Orders(DOMAIN updates) :
            UpdateTable(tableName, condition, updates, order)
DbDelete ==
    \E tableName \in NameInputs, condition \in DbConditions, mf \in MovedFromStates :
        DeleteFrom(tableName, condition, mf)
DbTruncate == \E tableName \in NameInputs : TruncateTable(tableName)

NextDb ==
    \/ DbCreate \/ DbDrop \/ DbInsert \/ DbSelect \/ DbSelectWhere
    \/ DbUpdate \/ DbDelete \/ DbTruncate \/ Return

\* a Database as its constructor leaves it: no tables
SpecDb == InitJoin /\ [][NextDb]_vars

\* the name is empty, starts with a digit or holds a character that is no
\* letter, digit or underscore
NameInvalid(tableName) ==
    \/ tableName = ""
    \/ Chars(tableName)[1] = "digit"
    \/ \E i \in 1..Len(Chars(tableName)) : Chars(tableName)[i] = "other"

NameWellFormed(tableName) ==
    /\ tableName # ""
    /\ Chars(tableName)[1] \in {"alpha", "underscore"}
    /\ \A i \in 1..Len(Chars(tableName)) : Chars(tableName)[i] \in {"alpha", "digit", "underscore"}

ColumnNamedTwice(sch) == \E i, j \in 1..Len(sch) : i # j /\ sch[i].name = sch[j].name

\* C12: createTable raises and leaves the tables and their contents as they
\* were when the name is empty, starts with a digit, holds a character other
\* than letters, digits and underscore, or is the name of a table of the
\* Database (TableAlreadyExists), when the schema is empty and when two of its
\* columns have the same name.
C12_CreateTableRejects ==
    (/\ call.op = "createTable"
     /\ \/ NameInvalid(call.tableName)
        \/ call.tableName \in DOMAIN before
        \/ call.schema = <<>>
        \/ ColumnNamedTwice(call.schema))
        => /\ ret.threw
           /\ tables = before
           /\ call.tableName \in DOMAIN before => ret.what = "TableAlreadyExistsError"

\* a valid schema rejected for the name of an existing table that holds rows
C12_Witness ==
    /\ call.op = "createTable"
    /\ call.tableName \in DOMAIN before
    /\ before[call.tableName].rows # <<>>
    /\ call.schema = RSchema
    /\ before[call.tableName].schema = LSchema
    /\ ret.threw


\* C13: after any sequence of createTable, dropTable, insertInto, updateTable,
\* deleteFrom and truncateTable calls every table is stored under its own name,
\* the name is non-empty, starts with a letter or underscore and holds only
\* letters, digits and underscores, no two tables have the same name, and every
\* schema is non-empty with pairwise distinct column names.
C13_TablesWellNamed ==
    /\ \A n \in DOMAIN tables :
          /\ tables[n].name = n
          /\ NameWellFormed(n)
          /\ tables[n].schema # <<>>
          /\ ~ColumnNamedTwice(tables[n].schema)
    /\ \A m, n \in DOMAIN tables : m # n => tables[m].name # tables[n].name

\* two tables, one of them truncated after it held rows
C13_Witness ==
    /\ Cardinality(DOMAIN tables) = 2
    /\ call.op = "truncateTable"
    /\ ~ret.threw
    /\ before[call.tableName].rows # <<>>
    /\ \E n \in DOMAIN tables : Chars(n)[1] = "underscore"


\* insertInto, selectFrom, updateTable or deleteFrom with a name that is not
\* the name of a table of the Database
CallOfAbsentTable ==
    /\ call.op \in {"insertInto", "selectFrom", "updateTable", "deleteFrom"}
    /\ call.tableName \notin DOMAIN before

\* C14: insertInto, selectFrom, updateTable and deleteFrom with a name that no
\* table of the Database has raise and leave the tables and their rows as they
\* were; the error is TableNotFound when the name is well formed, and the
\* error of the name check when it is not.
C14_AbsentTableRejected ==
    CallOfAbsentTable =>
        /\ ret.threw
        /\ tables = before
        /\ ret.what = IF NameWellFormed(call.tableName)
                      THEN "TableNotFoundError" ELSE "DatabaseError"

\* an update of a well-formed name that is not present, while another table
\* holds a row the update would match
C14_Witness ==
    /\ CallOfAbsentTable
    /\ call.op = "updateTable"
    /\ NameWellFormed(call.tableName)
    /\ call.condition = IdEq1
    /\ \E n \in DOMAIN tables : \E i \in 1..Len(tables[n].rows) : tables[n].rows[i][1] = IntValue(1)
    /\ ret.what = "TableNotFoundError"

\* C14 as stated: every name that is not present, well formed or not, gets
\* TableNotFound.
C14_AlwaysTableNotFound ==
    CallOfAbsentTable =>
        /\ ret.threw
        /\ ret.what = "TableNotFoundError"
        /\ tables = before


(***************************************************************************)
(* value.hpp: the comparison operators of Value.  == is the variants'      *)
(* equality and != is its negation; <, <=, > and >= are derived from       *)
(* operator<=>.                                                            *)
(***************************************************************************)
ComparisonOps == {"=", "!=", "<", "<=", ">", ">="}

\* value.hpp:130-152: `a op b` on two Values
ValueOperator(op, a, b) ==
    IF op \in {"=", "!="} THEN Ok(CompareOp(op, a, b))
    ELSE IF ValueCompare(a, b).threw THEN ValueCompare(a, b)
    ELSE Ok(CompareOp(op, a, b))

\* the comparison has no effect on the Table, the Database or the Parser
Compared(c, r) ==
    /\ call' = c
    /\ ret' = r
    /\ UNCHANGED <<schema, rows, before, inserted, onlyInserts, tables, tokens_, srcTree, input, txn, file>>

\* Value::operator==, != (value.hpp:150-152), <, <=, >, >= (value.hpp:130-146)
CompareTwoValues(op, a, b) ==
    /\ call.op = "none"
    /\ Compared([op |-> "compare", via |-> "Value", cmp |-> op, left |-> a, right |-> b],
                ValueOperator(op, a, b))

\* ComparisonCondition::evaluate (condition.cpp:54-85) on two literals
EvaluateComparison(op, a, b) ==
    /\ call.op = "none"
    /\ Compared([op |-> "compare", via |-> "ComparisonCondition", cmp |-> op,
                 left |-> a, right |-> b],
                ComparisonCondition_evaluate(Comparison(Literal(a), op, Literal(b)), <<>>, <<>>))

CompareDirect == \E op \in ComparisonOps, a \in Values, b \in Values : CompareTwoValues(op, a, b)
CompareInCondition ==
    \E op \in ComparisonOps, a \in Values, b \in Values : EvaluateComparison(op, a, b)

NextCompare == CompareDirect \/ CompareInCondition \/ Return

SpecCompare == Init /\ [][NextCompare]_vars

\* C15: a comparison of an integer Value with a text Value raises, for each of
\* =, !=, <, <=, >, >=, through Value's operators and through
\* ComparisonCondition::evaluate; it never returns true or false.
C15_MixedComparisonRaises ==
    (call.op = "compare" /\ call.left.type # call.right.type) => ret.threw

\* the same for ComparisonCondition::evaluate alone
C15_MixedConditionRaises ==
    (/\ call.op = "compare"
     /\ call.via = "ComparisonCondition"
     /\ call.left.type # call.right.type) => ret.threw


(***************************************************************************)
(* Condition::evaluate called on a row of the table's schema.              *)
(***************************************************************************)
EvaluatedRows == {row \in RowInputs : Len(row) = Len(TableSchema)}
EvaluatedConditions == Conditions \ {NullCondition}

\* Condition::evaluate(row, table), condition.cpp:54-85 and 115-138
EvaluateCondition(condition, row) ==
    /\ call.op = "none"
    /\ Compared([op |-> "evaluate", condition |-> condition, row |-> row],
                Condition_evaluate(condition, row, schema))

Evaluate ==
    \E condition \in EvaluatedConditions, row \in EvaluatedRows : EvaluateCondition(condition, row)

NextEvaluate == Evaluate \/ Return

SpecEvaluate == Init /\ [][NextEvaluate]_vars

\* C16: an AND or an OR raises whenever the evaluation of its right operand
\* raises, also when the left operand is false (AND) or true (OR).
C16_RightOperandAlwaysEvaluated ==
    (/\ call.op = "evaluate"
     /\ call.condition.kind = "logical"
     /\ Condition_evaluate(call.condition.right, call.row, schema).threw)
        => ret.threw


(***************************************************************************)
(* Table::selectRows, without and with a predicate, on the rows that       *)
(* insertRow has stored.                                                   *)
(***************************************************************************)
SelectColumnLists ==
    {<<"*">>, <<>>, <<"a">>, <<"b", "a">>, <<"a", "a">>, <<"nocol">>, <<"a", "nocol">>,
     <<"a", "*">>}

\* selectRows is const: r is its outcome
Selected(c, r) ==
    /\ call' = c
    /\ ret' = r
    /\ before' = rows
    /\ UNCHANGED <<schema, rows, inserted, onlyInserts, tables, tokens_, srcTree, input, txn, file>>

\* Table::selectRows(columnNames), table.cpp:98-129
SelectRows(columnNames) ==
    /\ call.op = "none"
    /\ Selected([op |-> "selectRows", columnNames |-> columnNames, filtered |-> FALSE,
                 condition |-> NullCondition],
                selectRows(schema, rows, columnNames))

\* Table::selectRows(columnNames, condition), table.cpp:131-172
SelectRowsWhere(columnNames, condition) ==
    /\ call.op = "none"
    /\ Selected([op |-> "selectRows", columnNames |-> columnNames, filtered |-> TRUE,
                 condition |-> condition],
                selectRowsWhere(schema, rows, columnNames, condition))

Select == \E columnNames \in SelectColumnLists : SelectRows(columnNames)
SelectWhere ==
    \E columnNames \in SelectColumnLists, condition \in Conditions :
        SelectRowsWhere(columnNames, condition)

NextSelect == Insert \/ Select \/ SelectWhere \/ Return

SpecSelect == Init /\ [][NextSelect]_vars

\* the rows of rs, from the i-th on, that the call selects, in table order
RECURSIVE SelectedFrom(_, _)
SelectedFrom(rs, i) ==
    IF i > Len(rs) THEN <<>>
    ELSE (IF ~call.filtered \/ Satisfies(call.condition, rs[i]) THEN <<rs[i]>> ELSE <<>>)
         \o SelectedFrom(rs, i + 1)

\* the values of the row in the named columns, in the requested order
ValuesOf(row, columnNames) ==
    [k \in 1..Len(columnNames) |->
        row[CHOOSE j \in 1..Len(schema) : schema[j].name = columnNames[k]]]

\* what the select has to return for the column list
SelectMeets(allColumns) ==
    IF allColumns
    THEN ~ret.threw /\ ret.value = SelectedFrom(rows, 1)
    ELSE IF \E k \in 1..Len(call.columnNames) : ~hasColumn(schema, call.columnNames[k])
    THEN ret.threw
    ELSE /\ ~ret.threw
         /\ ret.value = [i \in 1..Len(SelectedFrom(rows, 1)) |->
                            ValuesOf(SelectedFrom(rows, 1)[i], call.columnNames)]

\* a select whose predicate, if it has one, returns a value on every row
SelectOfTotalPredicate ==
    /\ call.op = "selectRows"
    /\ call.filtered => \A i \in 1..Len(rows) : ~Raises(call.condition, rows[i])

\* C17: selectRows, with or without a predicate, returns the selected rows in
\* table order, each with the values of the requested columns in the requested
\* order; the list ["*"] and the empty list give all columns in schema order; a
\* name that is no column of the table raises.
C17_SelectReturnsRequestedColumns ==
    SelectOfTotalPredicate =>
        SelectMeets(call.columnNames = <<"*">> \/ call.columnNames = <<>>)

\* the same, the empty list giving all columns only in a select with a predicate
C17_SelectEmptyListWithPredicate ==
    SelectOfTotalPredicate =>
        SelectMeets(call.columnNames = <<"*">> \/ (call.columnNames = <<>> /\ call.filtered))


\* a SELECT of named columns from two tables of the Database
IsJoinOfColumns(c) ==
    /\ c.op = "executeSelectWithJoin"
    /\ ~isSelectAll(c.stmt)
    /\ c.stmt.tableName \in DOMAIN tables
    /\ c.stmt.joins[1].tableName \in DOMAIN tables

\* the "table.column" names of the base table and of the joined table
JoinedNames(stmt) ==
    QualifiedNames(stmt.tableName, tables[stmt.tableName].schema)
    \o QualifiedNames(stmt.joins[1].tableName, tables[stmt.joins[1].tableName].schema)

PositionIn(names, name) == CHOOSE k \in 1..Len(names) : names[k] = name

\* the combined rows the statement selects from: those of its SELECT *
CombinedRows(stmt) == executeSelectWithJoin(tables, [stmt EXCEPT !.columns = <<>>])

\* C18: a SELECT with a join looks each requested name up in the list of the
\* "table.column" names of the two tables: a name that is not in the list makes
\* the statement raise, and otherwise every output row holds one value for each
\* requested column, in the requested order.
C18_JoinProjectsRequestedColumns ==
    IsJoinOfColumns(call) =>
        IF \E k \in 1..Len(call.stmt.columns) :
              \A m \in 1..Len(JoinedNames(call.stmt)) :
                  JoinedNames(call.stmt)[m] # call.stmt.columns[k]
        THEN ret.threw
        ELSE ret.threw = CombinedRows(call.stmt).threw
             /\ (~ret.threw =>
                   ret.value.rows =
                       [i \in 1..Len(CombinedRows(call.stmt).value.rows) |->
                           [k \in 1..Len(call.stmt.columns) |->
                               CombinedRows(call.stmt).value.rows[i][
                                   PositionIn(JoinedNames(call.stmt), call.stmt.columns[k])]]])

\* the same for the statements whose requested names are all in the list
C18_JoinProjectsKnownColumns ==
    (/\ IsJoinOfColumns(call)
     /\ \A k \in 1..Len(call.stmt.columns) :
           \E m \in 1..Len(JoinedNames(call.stmt)) :
               JoinedNames(call.stmt)[m] = call.stmt.columns[k])
        => C18_JoinProjectsRequestedColumns


(***************************************************************************)
(* main.cpp: the execution of an INSERT.  A value expression is a literal  *)
(* or a column reference (ast.hpp); a column reference has no value        *)
(* outside a row and its evaluate() throws (ast.cpp:21-25).                *)
(***************************************************************************)
LiteralExpression(v) == [kind |-> "literal", value |-> v]
ColumnExpression == [kind |-> "column", value |-> IntValue(0)]
InsertStatement(tableName, columns, values) ==
    [tableName |-> tableName, columns |-> columns, values |-> values]

\* ast.hpp:49-51 and ast.cpp:21-25
Expression_evaluate(expr) ==
    IF expr.kind = "literal" THEN Ok(expr.value) ELSE Throw("runtime_error")

\* main.cpp:142-145: the values of the expressions, unless one of them throws
evaluateValues(exprs) ==
    IF \E k \in 1..Len(exprs) : Expression_evaluate(exprs[k]).threw
    THEN Throw("runtime_error")
    ELSE Ok([k \in 1..Len(exprs) |-> Expression_evaluate(exprs[k]).value])

\* an INSERT that puts each value in the column the list names for it
insertValuesByName(tbls, stmt, v) ==
    IF v.threw THEN DbThrown(v.what, tbls)
    ELSE IF /\ stmt.columns # <<>>
            /\ stmt.tableName \in DOMAIN tbls
            /\ Len(stmt.columns) = Len(v.value)
            /\ Len(stmt.columns) = Len(tbls[stmt.tableName].schema)
            /\ \A j \in 1..Len(stmt.columns) :
                  \E k \in 1..Len(stmt.columns) :
                      stmt.columns[k] = tbls[stmt.tableName].schema[j].name
    THEN insertInto(tbls, stmt.tableName,
                    [j \in 1..Len(stmt.columns) |->
                        v.value[CHOOSE k \in 1..Len(stmt.columns) :
                                    stmt.columns[k] = tbls[stmt.tableName].schema[j].name]])
    ELSE insertInto(tbls, stmt.tableName, v.value)

\* main.cpp:147-154, v the outcome of the evaluation of the values
insertValues(tbls, stmt, v) ==
    IF v.threw THEN DbThrown(v.what, tbls)
    ELSE IF stmt.columns = <<>> THEN insertInto(tbls, stmt.tableName, v.value)
    ELSE insertInto(tbls, stmt.tableName, v.value)

\* main.cpp:141-155
executeInsert(tbls, stmt) == insertValues(tbls, stmt, evaluateValues(stmt.values))

InsertColumnLists == {<<>>, <<"id", "dept">>, <<"dept", "id">>, <<"id">>, <<"nocol", "id">>}
InsertValueLists ==
    {[k \in 1..Len(row) |-> LiteralExpression(row[k])] : row \in DbRowInputs}
    \cup {<<LiteralExpression(IntValue(1)), ColumnExpression>>}
InsertStatements ==
    {InsertStatement(tableName, columns, values) :
        tableName \in NameInputs, columns \in InsertColumnLists, values \in InsertValueLists}

\* SQLExecutor::executeInsert, main.cpp:141-155
ExecuteInsert(stmt) ==
    /\ call.op = "none"
    /\ stmt.tableName \in DOMAIN tables => Len(tables[stmt.tableName].rows) < MaxJoinRows
    /\ DbCalled([op |-> "executeInsert", stmt |-> stmt], executeInsert(tables, stmt))

InsertStmt == \E stmt \in InsertStatements : ExecuteInsert(stmt)

NextInsert == DbCreate \/ InsertStmt \/ Return

SpecInsert == InitJoin /\ [][NextInsert]_vars

\* C19: INSERT INTO t (c1, ..., ck) VALUES (v1, ..., vn) stores v1..vn at the
\* schema positions 1..n in the order written, and is accepted or rejected with
\* the same tables left, exactly as INSERT INTO t VALUES (v1, ..., vn) is.
C19_ColumnListIgnored ==
    call.op = "executeInsert" =>
        /\ ret.threw = executeInsert(before, [call.stmt EXCEPT !.columns = <<>>]).threw
        /\ tables = executeInsert(before, [call.stmt EXCEPT !.columns = <<>>]).tables
        /\ ~ret.threw =>
              tables[call.stmt.tableName].rows =
                  Append(before[call.stmt.tableName].rows,
                         [k \in 1..Len(call.stmt.values) |-> call.stmt.values[k].value])

\* values stored in the order written under a list that names the columns in
\* the other order, in a table that held a row
C19_Witness ==
    /\ call.op = "executeInsert"
    /\ ~ret.threw
    /\ call.stmt.columns = <<"dept", "id">>
    /\ call.stmt.values = <<LiteralExpression(IntValue(2)), LiteralExpression(IntValue(1))>>
    /\ Len(tables[call.stmt.tableName].rows) = 2
    /\ tables[call.stmt.tableName].rows[2] = <<IntValue(2), IntValue(1)>>

(***************************************************************************)
(* SQLExecutor::execute and the loop of main() that feeds it (main.cpp).   *)
(* A statement is its type and the statement object of that type.          *)
(***************************************************************************)
MaxStatements == 4

Statement(type, stmt) == [type |-> type, stmt |-> stmt]
CreateTableStatement(tableName, columns) == [tableName |-> tableName, columns |-> columns]
UpdateStatement(tableName, assignments, where) ==
    [tableName |-> tableName, assignments |-> assignments, where |-> where]
DeleteStatement(tableName, where) == [tableName |-> tableName, where |-> where]

\* the texts main() cuts at the semicolons of its input
BlankSql == "  "
LexErrorSql == "SELECT # FROM L"
ParseErrorSql == "DROP TABLE L"
CommentSql == "-- note"
CreateSql == "CREATE TABLE L (id int, dept int)"
InsertSql == "INSERT INTO L VALUES (1, 1)"
InsertStrSql == "INSERT INTO L VALUES (1, 'x')"
UpdateSql == "UPDATE L SET dept = 2"
DeleteSql == "DELETE FROM L WHERE id = 1"
SelectSql == "SELECT L.id FROM L WHERE dept = 1"
SelectAllSql == "SELECT * FROM L"
SqlTexts ==
    {BlankSql, LexErrorSql, ParseErrorSql, CommentSql, CreateSql, InsertSql, InsertStrSql,
     UpdateSql, DeleteSql, SelectSql, SelectAllSql}

\* main.cpp:87: sql.empty() or nothing but whitespace
isBlank(sql) == sql \in {"", BlankSql}

\* Lexer::tokenize and Parser::parse on each of the texts: '#' is no token
\* (lexer.cpp:123-133), DROP starts no statement (parser.cpp:94-116), and a
\* comment leaves END_OF_FILE alone, where check(END_OF_FILE) is false
\* (parser.cpp:34-37) and parseStatement finds no statement either
parse(sql) ==
    CASE sql = LexErrorSql -> Throw("LexerError")
      [] sql = ParseErrorSql -> Throw("ParseError")
      [] sql = CommentSql -> Throw("ParseError")
      [] sql = CreateSql ->
            Ok(Statement("CREATE_TABLE", CreateTableStatement("L", LSchema)))
      [] sql = InsertSql ->
            Ok(Statement("INSERT", InsertStatement("L", <<>>,
                   <<LiteralExpression(IntValue(1)), LiteralExpression(IntValue(1))>>)))
      [] sql = InsertStrSql ->
            Ok(Statement("INSERT", InsertStatement("L", <<>>,
                   <<LiteralExpression(IntValue(1)), LiteralExpression(StrValue("x"))>>)))
      [] sql = UpdateSql ->
            Ok(Statement("UPDATE", UpdateStatement("L",
                   <<<<"dept", LiteralExpression(IntValue(2))>>>>, NullCondition)))
      [] sql = DeleteSql -> Ok(Statement("DELETE", DeleteStatement("L", IdEq1)))
      [] sql = SelectSql ->
            Ok(Statement("SELECT", SelectStatement(<<<<"L", "id">>>>, "L", <<>>,
                   Comparison(ColumnRef(<<"dept">>), "=", Literal(IntValue(1))))))
      [] sql = SelectAllSql ->
            Ok(Statement("SELECT", SelectStatement(<<>>, "L", <<>>, NullCondition)))

\* what a statement writes to std::cout: a table, or nothing
NoOutput == [columns |-> <<>>, rows |-> <<>>]

\* a statement that writes nothing, whatever the Database call returns
silent(r) == [r EXCEPT !.value = NoOutput]

\* main.cpp:136-139
executeCreateTable(tbls, stmt) == silent(createTable(tbls, stmt.tableName, stmt.columns))

\* TableFormatter::printTable, main.cpp:25-59: nothing is printed without columns
printTable(columnNames, r) ==
    IF r.threw THEN r
    ELSE Ok(IF columnNames = <<>> THEN NoOutput ELSE [columns |-> columnNames, rows |-> r.value])

\* main.cpp:183-194: the part of each name after its dot
selectColumns(stmt) == [k \in 1..Len(stmt.columns) |-> ActualColumnName(stmt.columns[k])[1]]

\* main.cpp:173-181, t the outcome of getTable
displayAll(tbls, stmt, t) ==
    IF t.threw THEN DbThrown(t.what, tbls)
    ELSE LET r == printTable([i \in 1..Len(t.value.schema) |-> <<t.value.schema[i].name>>],
                             IF stmt.where.kind = "null"
                             THEN selectFrom(tbls, stmt.tableName, <<"*">>)
                             ELSE selectFromWhere(tbls, stmt.tableName, <<"*">>, stmt.where))
         IN  IF r.threw THEN DbThrown(r.what, tbls) ELSE DbDone(r.value, tbls)

\* main.cpp:182-203, the statement names its columns
displayColumns(tbls, stmt) ==
    LET r == printTable(stmt.columns,
                        IF stmt.where.kind = "null"
                        THEN selectFrom(tbls, stmt.tableName, selectColumns(stmt))
                        ELSE selectFromWhere(tbls, stmt.tableName, selectColumns(stmt),
                                             stmt.where))
    IN  IF r.threw THEN DbThrown(r.what, tbls) ELSE DbDone(r.value, tbls)

\* main.cpp:165-204
executeSelectSimple(tbls, stmt) ==
    IF isSelectAll(stmt) THEN displayAll(tbls, stmt, getTable(tbls, stmt.tableName))
    ELSE displayColumns(tbls, stmt)

\* main.cpp:157-163; a select with joins leaves the tables alone
joined(tbls, r) == IF r.threw THEN DbThrown(r.what, tbls) ELSE DbDone(r.value, tbls)

executeSelect(tbls, stmt) ==
    IF stmt.joins # <<>> THEN joined(tbls, executeSelectWithJoin(tbls, stmt))
    ELSE executeSelectSimple(tbls, stmt)

\* main.cpp:401-404: updates[name] = value, a later assignment replacing an earlier
assignedColumns(assignments) == {assignments[k][1] : k \in 1..Len(assignments)}

lastAssigned(assignments, c) ==
    CHOOSE k \in 1..Len(assignments) :
        /\ assignments[k][1] = c
        /\ \A m \in 1..Len(assignments) : assignments[m][1] = c => m <= k

buildUpdates(assignments) ==
    IF \E k \in 1..Len(assignments) : Expression_evaluate(assignments[k][2]).threw
    THEN Throw("runtime_error")
    ELSE Ok([c \in assignedColumns(assignments) |->
                Expression_evaluate(assignments[lastAssigned(assignments, c)][2]).value])

\* main.cpp:399-413, u the outcome of building the map
updateWith(tbls, stmt, u, order) ==
    IF u.threw THEN DbThrown(u.what, tbls)
    ELSE updateTable(tbls, stmt.tableName, stmt.where, u.value, order)

executeUpdate(tbls, stmt, order) ==
    silent(updateWith(tbls, stmt, buildUpdates(stmt.assignments), order))

\* main.cpp:415-423
executeDelete(tbls, stmt, mf) == silent(deleteFrom(tbls, stmt.tableName, stmt.where, mf))

\* main.cpp:110-134
executeStatement(tbls, st, order, mf) ==
    CASE st.type = "CREATE_TABLE" -> executeCreateTable(tbls, st.stmt)
      [] st.type = "INSERT" -> silent(executeInsert(tbls, st.stmt))
      [] st.type = "SELECT" -> executeSelect(tbls, st.stmt)
      [] st.type = "UPDATE" -> executeUpdate(tbls, st.stmt, order)
      [] st.type = "DELETE" -> executeDelete(tbls, st.stmt, mf)

\* main.cpp:93-104, p the outcome of lexing and parsing
executeParsed(tbls, p, order, mf) ==
    IF p.threw THEN DbThrown(p.what, tbls)
    ELSE IF p.value.type = "none" THEN DbDone(NoOutput, tbls)
    ELSE executeStatement(tbls, p.value, order, mf)

\* main.cpp:86-104, the body of the try block
executeTry(tbls, sql, order, mf) ==
    IF isBlank(sql) THEN DbDone(NoOutput, tbls)
    ELSE executeParsed(tbls, parse(sql), order, mf)

\* what execute's caller sees: whether an exception reached it, the line
\* written to std::cerr and the table written to std::cout
Executed(threw, what, error, output, tbls) ==
    [threw |-> threw, what |-> what, value |-> [error |-> error, output |-> output],
     tables |-> tbls]

\* an execute without its catch clause
executeUncaught(tbls, sql, order, mf) ==
    LET r == executeTry(tbls, sql, order, mf)
    IN  IF r.threw THEN Executed(TRUE, r.what, "", NoOutput, r.tables)
        ELSE Executed(FALSE, "", "", r.value, r.tables)

\* main.cpp:84-109: catch (const std::exception&) writes the error
execute(tbls, sql, order, mf) ==
    LET r == executeTry(tbls, sql, order, mf)
    IN  IF r.threw THEN Executed(FALSE, "", r.what, NoOutput, r.tables)
        ELSE Executed(FALSE, "", "", r.value, r.tables)

\* the columns the statement of the text assigns, for the order of its map
assignedBy(sql) ==
    IF isBlank(sql) \/ parse(sql).threw \/ parse(sql).value.type # "UPDATE" THEN {}
    ELSE assignedColumns(parse(sql).value.stmt.assignments)

\* what remove_if may leave in the rows it moved from, for a DELETE; no other
\* statement moves rows
movedFromBy(sql) ==
    IF isBlank(sql) \/ parse(sql).threw \/ parse(sql).value.type # "DELETE" THEN {"unchanged"}
    ELSE MovedFromStates

\* main.cpp:543-555: the statement read is executed and removed from the
\* input; an exception that leaves execute leaves main as well and ends the
\* program
Executes(sql, r) ==
    /\ tables' = r.tables
    /\ before' = tables
    /\ call' = [op |-> "execute", sql |-> sql]
    /\ ret' = [threw |-> r.threw, what |-> r.what, value |-> r.value]
    /\ input' = IF r.threw THEN [input EXCEPT !.aborted = TRUE]
                ELSE [left |-> input.left - 1,
                      reported |-> input.reported + (IF r.value.error # "" THEN 1 ELSE 0),
                      aborted |-> FALSE]
    /\ UNCHANGED <<schema, rows, inserted, onlyInserts, tokens_, srcTree, txn, file>>

Execute(sql, order, mf) ==
    /\ ~input.aborted
    /\ input.left > 0
    /\ \E r \in {execute(tables, sql, order, mf)} : Executes(sql, r)

\* std::cin hands main any text as its next statement
MainLoop ==
    \E sql \in SqlTexts :
        \E mf \in movedFromBy(sql), order \in Orders(assignedBy(sql)) : Execute(sql, order, mf)

InitShell ==
    /\ schema = <<>>
    /\ rows = <<>>
    /\ before = <<>>
    /\ inserted = <<>>
    /\ onlyInserts = TRUE
    /\ tables = <<>>
    /\ tokens_ = <<>>
    /\ srcTree = NullCondition
    /\ input \in {[left |-> n, reported |-> 0, aborted |-> FALSE] : n \in 1..MaxStatements}
    /\ txn = NoTransaction
    /\ file = <<>>
    /\ call = [op |-> "none", sql |-> ""]
    /\ ret = Ok([error |-> "", output |-> NoOutput])

NextShell == MainLoop

SpecShell == InitShell /\ [][NextShell]_vars

\* main() keeps reading while std::cin has statements
SpecShellFair == SpecShell /\ WF_vars(MainLoop)

\* whether the statement of the text fails on these tables, read off what it
\* asks of them: a text that holds no statement always does, CREATE when the
\* table exists, the others when it does not, an INSERT of a string into an
\* INT column, an UPDATE without WHERE as soon as there is a row to test
Fails(sql, tbls) ==
    CASE sql \in {LexErrorSql, ParseErrorSql, CommentSql, InsertStrSql} -> TRUE
      [] sql = BlankSql -> FALSE
      [] sql = CreateSql -> "L" \in DOMAIN tbls
      [] sql = UpdateSql -> "L" \notin DOMAIN tbls \/ tbls["L"].rows # <<>>
      [] OTHER -> "L" \notin DOMAIN tbls

\* C20: execute never lets an exception reach its caller and writes an error
\* exactly for a statement that fails in lexing, parsing or execution; each
\* step of the shell takes one statement off the input and runs it on the
\* tables the statement before it left, whatever that statement's outcome;
\* and every statement of the input is eventually executed.
C20_ExecuteReportsAndContinues ==
    /\ [](call.op = "execute" =>
            /\ ~ret.threw
            /\ ret.value.error # "" <=> Fails(call.sql, before))
    /\ [][/\ input'.left = input.left - 1
          /\ before' = tables]_vars
    /\ <>(input.left = 0)

\* failed statements lie behind, and the INSERT after them has added its row
\* to the table a CREATE before it made
C20_Witness ==
    /\ call.op = "execute"
    /\ call.sql = InsertSql
    /\ input.reported = 2
    /\ input.left = 0
    /\ ret.value.error = ""
    /\ "L" \in DOMAIN tables
    /\ tables["L"].rows = <<<<IntValue(1), IntValue(1)>>>>

(***************************************************************************)
(* parser.cpp: the statement parser.  Each function is given the position  *)
(* after the tokens its caller consumed and returns the statement (or the  *)
(* list) it parsed with the position after it, or a ParseError with the    *)
(* position at which it is thrown.                                         *)
(***************************************************************************)
\* parser.cpp:21-27
previous(toks, cur) == IF cur = 0 THEN Token("END_OF_FILE") ELSE toks[cur]

\* parser.cpp:402-411
parseDataType(toks, cur) ==
    IF check(toks, cur, "INT") THEN Parsed("INT", cur + 1)
    ELSE IF check(toks, cur, "STR") THEN Parsed("STR", cur + 1)
    ELSE ParseError(cur)

RECURSIVE columnDefLoop(_, _, _)

\* parser.cpp:126-131, dt the outcome of parseDataType
columnDefNext(toks, columns, name, dt) ==
    IF ~dt.ok THEN dt
    ELSE IF check(toks, dt.cur, "COMMA")
    THEN columnDefLoop(toks, dt.cur + 1, Append(columns, Column(name, dt.node)))
    ELSE Parsed(Append(columns, Column(name, dt.node)), dt.cur)

\* parser.cpp:125-131: the do-while loop of the column definitions
columnDefLoop(toks, cur, columns) ==
    IF ~check(toks, cur, "IDENTIFIER") THEN ParseError(cur)
    ELSE columnDefNext(toks, columns, peek(toks, cur).str, parseDataType(toks, cur + 1))

\* parser.cpp:133-135, c the outcome of the column definitions
createTableBuilt(toks, name, c) ==
    IF ~c.ok THEN c
    ELSE Parsed(Statement("CREATE_TABLE", CreateTableStatement(name, c.node)), c.cur)

\* parser.cpp:116-136, after CREATE
parseCreateTable(toks, cur) ==
    IF ~check(toks, cur, "TABLE") THEN ParseError(cur)
    ELSE IF ~check(toks, cur + 1, "IDENTIFIER") THEN ParseError(cur + 1)
    ELSE IF ~check(toks, cur + 2, "LEFT_PAREN") THEN ParseError(cur + 2)
    ELSE createTableBuilt(toks, peek(toks, cur + 1).str,
                          closeParen(toks, columnDefLoop(toks, cur + 3, <<>>)))

\* parser.cpp:276-290
parseColumn(toks, cur) ==
    IF check(toks, cur + 1, "DOT")
    THEN (IF check(toks, cur + 2, "IDENTIFIER") THEN Parsed(ColumnExpression, cur + 3)
          ELSE ParseError(cur + 2))
    ELSE Parsed(ColumnExpression, cur + 1)

\* parser.cpp:253-274
parseExpression(toks, cur) ==
    IF check(toks, cur, "INTEGER")
    THEN Parsed(LiteralExpression(IntValue(peek(toks, cur).int)), cur + 1)
    ELSE IF check(toks, cur, "STRING_LITERAL")
    THEN Parsed(LiteralExpression(StrValue(peek(toks, cur).str)), cur + 1)
    ELSE IF check(toks, cur, "IDENTIFIER") THEN parseColumn(toks, cur)
    ELSE ParseError(cur)

\* parser.cpp:150-153: the do-while loop of the column names of an INSERT
RECURSIVE columnNameLoop(_, _, _)
columnNameLoop(toks, cur, names) ==
    IF ~check(toks, cur, "IDENTIFIER") THEN ParseError(cur)
    ELSE IF check(toks, cur + 1, "COMMA")
    THEN columnNameLoop(toks, cur + 2, Append(names, peek(toks, cur).str))
    ELSE Parsed(Append(names, peek(toks, cur).str), cur + 1)

\* parser.cpp:148-156: the optional column list
insertColumnList(toks, cur) ==
    IF check(toks, cur, "LEFT_PAREN") THEN closeParen(toks, columnNameLoop(toks, cur + 1, <<>>))
    ELSE Parsed(<<>>, cur)

RECURSIVE expressionLoop(_, _, _)

\* parser.cpp:163-165, e the outcome of parseExpression
expressionNext(toks, values, e) ==
    IF ~e.ok THEN e
    ELSE IF check(toks, e.cur, "COMMA")
    THEN expressionLoop(toks, e.cur + 1, Append(values, e.node))
    ELSE Parsed(Append(values, e.node), e.cur)

\* parser.cpp:163-165: the do-while loop of the values
expressionLoop(toks, cur, values) == expressionNext(toks, values, parseExpression(toks, cur))

\* parser.cpp:167-169, v the outcome of the values
insertBuilt(name, columns, v) ==
    IF ~v.ok THEN v
    ELSE Parsed(Statement("INSERT", InsertStatement(name, columns, v.node)), v.cur)

\* parser.cpp:158-169, c the outcome of the column list
insertValuesAt(toks, name, c) ==
    IF ~c.ok THEN c
    ELSE IF ~check(toks, c.cur, "VALUES") THEN ParseError(c.cur)
    ELSE IF ~check(toks, c.cur + 1, "LEFT_PAREN") THEN ParseError(c.cur + 1)
    ELSE insertBuilt(name, c.node, closeParen(toks, expressionLoop(toks, c.cur + 2, <<>>)))

\* parser.cpp:141-170, after INSERT
parseInsert(toks, cur) ==
    IF ~check(toks, cur, "INTO") THEN ParseError(cur)
    ELSE IF ~check(toks, cur + 1, "IDENTIFIER") THEN ParseError(cur + 1)
    ELSE insertValuesAt(toks, peek(toks, cur + 1).str, insertColumnList(toks, cur + 2))

RECURSIVE selectColumnLoop(_, _, _)

\* parser.cpp:179-192, q the outcome of the qualified name
selectColumnNext(toks, columns, q) ==
    IF ~q.ok THEN ParseError(q.cur)
    ELSE IF check(toks, q.cur, "COMMA")
    THEN selectColumnLoop(toks, q.cur + 1, Append(columns, q.name))
    ELSE Parsed(Append(columns, q.name), q.cur)

\* parser.cpp:179-192: the do-while loop of the selected columns
selectColumnLoop(toks, cur, columns) ==
    IF ~check(toks, cur, "IDENTIFIER") THEN ParseError(cur)
    ELSE selectColumnNext(toks, columns, qualifiedName(toks, cur))

\* parser.cpp:176-193
selectColumnList(toks, cur) ==
    IF check(toks, cur, "ASTERISK") THEN Parsed(<<>>, cur + 1)
    ELSE selectColumnLoop(toks, cur, <<>>)

RECURSIVE parseJoins(_, _, _)

\* parser.cpp:434-438, c the outcome of the ON condition
joinBuilt(toks, joins, name, c) ==
    IF ~c.ok THEN c ELSE parseJoins(toks, c.cur, Append(joins, JoinClause(name, c.node)))

\* parser.cpp:425-439, at INNER
parseJoin(toks, cur, joins) ==
    IF ~check(toks, cur + 1, "JOIN") THEN ParseError(cur + 1)
    ELSE IF ~check(toks, cur + 2, "IDENTIFIER") THEN ParseError(cur + 2)
    ELSE IF ~check(toks, cur + 3, "ON") THEN ParseError(cur + 3)
    ELSE joinBuilt(toks, joins, peek(toks, cur + 2).str, parseCondition(toks, cur + 4))

\* parser.cpp:414-422: the while loop of the JOIN clauses
parseJoins(toks, cur, joins) ==
    IF check(toks, cur, "INNER") THEN parseJoin(toks, cur, joins) ELSE Parsed(joins, cur)

\* parser.cpp:200-204, 230-233, 244-247: the optional WHERE clause
whereClause(toks, cur) ==
    IF check(toks, cur, "WHERE") THEN parseCondition(toks, cur + 1)
    ELSE Parsed(NullCondition, cur)

\* parser.cpp:206-211, w the outcome of the WHERE clause
selectBuilt(columns, name, joins, w) ==
    IF ~w.ok THEN w
    ELSE Parsed(Statement("SELECT", SelectStatement(columns, name, joins, w.node)), w.cur)

\* parser.cpp:198-204, j the outcome of parseJoins
selectWhere(toks, columns, name, j) ==
    IF ~j.ok THEN j ELSE selectBuilt(columns, name, j.node, whereClause(toks, j.cur))

\* parser.cpp:194-198, c the outcome of the column list
selectFromAt(toks, c) ==
    IF ~c.ok THEN c
    ELSE IF ~check(toks, c.cur, "FROM") THEN ParseError(c.cur)
    ELSE IF ~check(toks, c.cur + 1, "IDENTIFIER") THEN ParseError(c.cur + 1)
    ELSE selectWhere(toks, c.node, peek(toks, c.cur + 1).str, parseJoins(toks, c.cur + 2, <<>>))

\* parser.cpp:172-212, after SELECT
parseSelect(toks, cur) == selectFromAt(toks, selectColumnList(toks, cur))

RECURSIVE assignmentLoop(_, _, _)

\* parser.cpp:224-228, e the outcome of parseExpression
assignmentNext(toks, assignments, name, e) ==
    IF ~e.ok THEN e
    ELSE IF check(toks, e.cur, "COMMA")
    THEN assignmentLoop(toks, e.cur + 1, Append(assignments, <<name, e.node>>))
    ELSE Parsed(Append(assignments, <<name, e.node>>), e.cur)

\* parser.cpp:221-228: the do-while loop of the assignments
assignmentLoop(toks, cur, assignments) ==
    IF ~check(toks, cur, "IDENTIFIER") THEN ParseError(cur)
    ELSE IF ~check(toks, cur + 1, "EQUAL") THEN ParseError(cur + 1)
    ELSE assignmentNext(toks, assignments, peek(toks, cur).str, parseExpression(toks, cur + 2))

\* parser.cpp:235, w the outcome of the WHERE clause
updateBuilt(name, assignments, w) ==
    IF ~w.ok THEN w
    ELSE Parsed(Statement("UPDATE", UpdateStatement(name, assignments, w.node)), w.cur)

\* parser.cpp:230-235, a the outcome of the assignments
updateWhere(toks, name, a) ==
    IF ~a.ok THEN a ELSE updateBuilt(name, a.node, whereClause(toks, a.cur))

\* parser.cpp:214-236, after UPDATE
parseUpdate(toks, cur) ==
    IF ~check(toks, cur, "IDENTIFIER") THEN ParseError(cur)
    ELSE IF ~check(toks, cur + 1, "SET") THEN ParseError(cur + 1)
    ELSE updateWhere(toks, peek(toks, cur).str, assignmentLoop(toks, cur + 2, <<>>))

\* parser.cpp:249, w the outcome of the WHERE clause
deleteBuilt(name, w) ==
    IF ~w.ok THEN w ELSE Parsed(Statement("DELETE", DeleteStatement(name, w.node)), w.cur)

\* parser.cpp:238-250, after DELETE
parseDelete(toks, cur) ==
    IF ~check(toks, cur, "FROM") THEN ParseError(cur)
    ELSE IF ~check(toks, cur + 1, "IDENTIFIER") THEN ParseError(cur + 1)
    ELSE deleteBuilt(peek(toks, cur + 1).str, whereClause(toks, cur + 2))

\* parser.cpp:94-114; nullptr is the statement of type "none"
parseStatement(toks, cur) ==
    IF check(toks, cur, "END_OF_FILE") THEN Parsed(Statement("none", <<>>), cur)
    ELSE IF check(toks, cur, "CREATE") THEN parseCreateTable(toks, cur + 1)
    ELSE IF check(toks, cur, "INSERT") THEN parseInsert(toks, cur + 1)
    ELSE IF check(toks, cur, "SELECT") THEN parseSelect(toks, cur + 1)
    ELSE IF check(toks, cur, "UPDATE") THEN parseUpdate(toks, cur + 1)
    ELSE IF check(toks, cur, "DELETE") THEN parseDelete(toks, cur + 1)
    ELSE ParseError(cur)

StatementKeywords == {"CREATE", "INSERT", "SELECT", "UPDATE", "DELETE"}

\* parser.cpp:445-460: the while loop of synchronize
RECURSIVE synchronizeLoop(_, _)
synchronizeLoop(toks, cur) ==
    IF isAtEnd(toks, cur) THEN cur
    ELSE IF previous(toks, cur).type = "SEMICOLON" THEN cur
    ELSE IF peek(toks, cur).type \in StatementKeywords THEN cur
    ELSE synchronizeLoop(toks, advance(toks, cur))

\* parser.cpp:442-461: the position synchronize leaves
synchronize(toks, cur) == synchronizeLoop(toks, advance(toks, cur))

\* what a parse entry point hands its caller: the statements, or the
\* ParseError thrown at `at`; cur is the parser's position afterwards
Statements(stmts, cur) == [threw |-> FALSE, what |-> "", value |-> stmts, at |-> 0, cur |-> cur]
Rethrown(at, cur) == [threw |-> TRUE, what |-> "ParseError", value |-> <<>>, at |-> at, cur |-> cur]

\* parser.cpp:63-71, s the outcome of parseStatement
parseCaught(toks, s) ==
    IF s.ok THEN Statements(<<s.node>>, s.cur) ELSE Rethrown(s.cur, synchronize(toks, s.cur))

\* a parse that accepts a statement only when the tokens end after it
parseToEnd(toks, cur) ==
    IF parseStatement(toks, cur).ok /\ ~isAtEnd(toks, parseStatement(toks, cur).cur)
    THEN Rethrown(parseStatement(toks, cur).cur, parseStatement(toks, cur).cur)
    ELSE parseCaught(toks, parseStatement(toks, cur))

parse_(toks, cur) == parseCaught(toks, parseStatement(toks, cur))

RECURSIVE parseMultipleLoop(_, _, _)

\* a loop body that resynchronizes after an ill-formed statement and goes on
parseMultipleSkipBad(toks, statements, s) ==
    IF ~s.ok THEN parseMultipleLoop(toks, synchronize(toks, s.cur), statements)
    ELSE parseMultipleLoop(toks, IF check(toks, s.cur, "SEMICOLON") THEN s.cur + 1 ELSE s.cur,
                           Append(statements, s.node))

\* parser.cpp:77-90: the body of the loop, s the outcome of parseStatement
parseMultipleNext(toks, statements, s) ==
    IF ~s.ok THEN Rethrown(s.cur, synchronize(toks, s.cur))
    ELSE parseMultipleLoop(toks, IF check(toks, s.cur, "SEMICOLON") THEN s.cur + 1 ELSE s.cur,
                           IF s.node.type = "none" THEN statements
                           ELSE Append(statements, s.node))

\* parser.cpp:76-91: the while loop
parseMultipleLoop(toks, cur, statements) ==
    IF isAtEnd(toks, cur) THEN Statements(statements, cur)
    ELSE parseMultipleNext(toks, statements, parseStatement(toks, cur))

\* parser.cpp:73-92
parseMultiple(toks) == parseMultipleLoop(toks, 0, <<>>)

(***************************************************************************)
(* The texts the statement parser is run on: up to MaxPieces statements,   *)
(* well-formed or not, each followed by a semicolon (the last one with or  *)
(* without it), with or without the END_OF_FILE token the lexer appends.   *)
(***************************************************************************)
MaxPieces == 3

Id(name) == StrToken("IDENTIFIER", name)

ValidPieces == {"create", "insert", "select", "update", "delete"}
InvalidPieces ==
    {"delete-no-from", "insert-unclosed", "select-extra-paren", "delete-extra-int",
     "select-no-from"}
Pieces == ValidPieces \cup InvalidPieces

\* the tokens of each text
PieceTokens(piece) ==
    CASE piece = "create" ->
            <<Token("CREATE"), Token("TABLE"), Id("t"), Token("LEFT_PAREN"), Id("id"),
              Token("INT"), Token("COMMA"), Id("name"), Token("STR"), Token("RIGHT_PAREN")>>
      [] piece = "insert" ->
            <<Token("INSERT"), Token("INTO"), Id("t"), Token("VALUES"), Token("LEFT_PAREN"),
              IntToken(1), Token("COMMA"), StrToken("STRING_LITERAL", "x"),
              Token("RIGHT_PAREN")>>
      [] piece = "select" ->
            <<Token("SELECT"), Token("ASTERISK"), Token("FROM"), Id("t"), Token("WHERE"),
              Id("id"), Token("EQUAL"), IntToken(1)>>
      [] piece = "update" ->
            <<Token("UPDATE"), Id("t"), Token("SET"), Id("name"), Token("EQUAL"),
              StrToken("STRING_LITERAL", "y"), Token("WHERE"), Id("id"), Token("EQUAL"),
              IntToken(1)>>
      [] piece = "delete" -> <<Token("DELETE"), Token("FROM"), Id("t")>>
      [] piece = "delete-no-from" -> <<Token("DELETE"), Id("t")>>
      [] piece = "insert-unclosed" ->
            <<Token("INSERT"), Token("INTO"), Id("t"), Token("VALUES"), Token("LEFT_PAREN"),
              IntToken(1)>>
      [] piece = "select-extra-paren" ->
            <<Token("SELECT"), Token("ASTERISK"), Token("FROM"), Id("t"), Token("WHERE"),
              Id("id"), Token("EQUAL"), IntToken(1), Token("RIGHT_PAREN")>>
      [] piece = "delete-extra-int" ->
            <<Token("DELETE"), Token("FROM"), Id("t"), IntToken(1)>>
      [] piece = "select-no-from" ->
            <<Token("SELECT"), Token("ASTERISK"), Id("t"), Token("WHERE"), Id("id"),
              Token("EQUAL"), IntToken(1)>>

RECURSIVE PiecesTokens(_, _, _)
PiecesTokens(pieces, k, semicolon) ==
    IF k > Len(pieces) THEN <<>>
    ELSE PieceTokens(pieces[k])
         \o (IF k < Len(pieces) \/ semicolon THEN <<Token("SEMICOLON")>> ELSE <<>>)
         \o PiecesTokens(pieces, k + 1, semicolon)

SourceTokens(src) ==
    PiecesTokens(src.pieces, 1, src.semicolon)
    \o (IF src.eof THEN <<Token("END_OF_FILE")>> ELSE <<>>)

Sources ==
    {[pieces |-> ps, semicolon |-> semi, eof |-> eof] :
        ps \in UNION {[1..n -> Pieces] : n \in 1..MaxPieces},
        semi \in BOOLEAN, eof \in BOOLEAN}

\* a Parser constructed on the tokens of a text (parser.cpp:6)
InitStatements ==
    /\ schema = <<>>
    /\ rows = <<>>
    /\ before = <<>>
    /\ inserted = <<>>
    /\ onlyInserts = TRUE
    /\ tables = <<>>
    /\ srcTree \in Sources
    /\ tokens_ = SourceTokens(srcTree)
    /\ input = NoInput
    /\ txn = NoTransaction
    /\ file = <<>>
    /\ call = [op |-> "none"]
    /\ ret = Statements(<<>>, 0)

StatementsReturned(op, r) ==
    /\ call' = [op |-> op]
    /\ ret' = r
    /\ UNCHANGED <<schema, rows, before, inserted, onlyInserts, tables, tokens_, srcTree, input, txn, file>>

\* Parser::parseMultiple on the Parser's tokens
ParseMultiple ==
    /\ call.op = "none"
    /\ StatementsReturned("parseMultiple", parseMultiple(tokens_))

\* Parser::parse on the Parser's tokens
Parse ==
    /\ call.op = "none"
    /\ StatementsReturned("parse", parse_(tokens_, 0))

NextStatements == ParseMultiple \/ Parse

SpecStatements == InitStatements /\ [][NextStatements]_vars

\* the statement each well-formed text says
PieceStatement(piece) ==
    CASE piece = "create" ->
            Statement("CREATE_TABLE",
                      CreateTableStatement("t", <<Column("id", "INT"), Column("name", "STR")>>))
      [] piece = "insert" ->
            Statement("INSERT", InsertStatement("t", <<>>,
                <<LiteralExpression(IntValue(1)), LiteralExpression(StrValue("x"))>>))
      [] piece \in {"select", "select-extra-paren"} ->
            Statement("SELECT", SelectStatement(<<>>, "t", <<>>, IdEq1))
      [] piece = "update" ->
            Statement("UPDATE", UpdateStatement("t",
                <<<<"name", LiteralExpression(StrValue("y"))>>>>, IdEq1))
      [] piece \in {"delete", "delete-extra-int"} ->
            Statement("DELETE", DeleteStatement("t", NullCondition))

\* the number of tokens before the k-th text
RECURSIVE PieceStart(_, _)
PieceStart(src, k) ==
    IF k = 1 THEN 0 ELSE PieceStart(src, k - 1) + Len(PieceTokens(src.pieces[k - 1])) + 1

FirstInvalid(src) ==
    CHOOSE k \in 1..Len(src.pieces) :
        /\ src.pieces[k] \in InvalidPieces
        /\ \A j \in 1..(k - 1) : src.pieces[j] \in ValidPieces

\* C21: parseMultiple returns the statements of the text in source order when
\* every statement is well-formed; when one is not, it throws the ParseError
\* of the first such statement (thrown at one of its tokens or at the token
\* that follows it) and hands its caller no statement, whatever statements
\* stand before or after.
C21_ParseMultipleAllOrNothing ==
    call.op = "parseMultiple" =>
        IF \A k \in 1..Len(srcTree.pieces) : srcTree.pieces[k] \in ValidPieces
        THEN /\ ~ret.threw
             /\ ret.value = [k \in 1..Len(srcTree.pieces) |-> PieceStatement(srcTree.pieces[k])]
        ELSE /\ ret.threw
             /\ ret.what = "ParseError"
             /\ ret.value = <<>>
             /\ ret.at >= PieceStart(srcTree, FirstInvalid(srcTree))
             /\ ret.at <= PieceStart(srcTree, FirstInvalid(srcTree))
                          + Len(PieceTokens(srcTree.pieces[FirstInvalid(srcTree)]))

\* a text whose second statement is ill-formed, between two well-formed ones
C21_Witness ==
    /\ call.op = "parseMultiple"
    /\ srcTree.pieces = <<"create", "delete-no-from", "insert">>
    /\ ret.threw
    /\ ret.value = <<>>

\* the texts that begin with a whole statement: the well-formed ones, and
\* those where tokens that begin no statement follow a well-formed one
StartsWithStatement == ValidPieces \cup {"select-extra-paren", "delete-extra-int"}

\* the tokens of the text that follow its statement
ExtraTokens(piece) ==
    CASE piece = "select-extra-paren" -> <<Token("RIGHT_PAREN")>>
      [] piece = "delete-extra-int" -> <<IntToken(1)>>
      [] OTHER -> <<>>

\* C29: Parser::parse returns the first statement of the tokens and raises
\* nothing when tokens follow it, be they a ')' or a number left over after
\* the statement, a semicolon, or further statements, well-formed or not; it
\* stops at the first token after the statement.
C29_ParseIgnoresWhatFollows ==
    (call.op = "parse" /\ srcTree.pieces[1] \in StartsWithStatement) =>
        /\ ~ret.threw
        /\ ret.value = <<PieceStatement(srcTree.pieces[1])>>
        /\ ret.cur = Len(PieceTokens(srcTree.pieces[1])) - Len(ExtraTokens(srcTree.pieces[1]))

\* a SELECT with a ')' left over after its WHERE condition, then an
\* ill-formed statement
C29_Witness ==
    /\ call.op = "parse"
    /\ srcTree.pieces = <<"select-extra-paren", "delete-no-from">>
    /\ ~ret.threw
    /\ ret.value = <<Statement("SELECT", SelectStatement(<<>>, "t", <<>>, IdEq1))>>

(***************************************************************************)
(* Database::dropTable (SpecDb).                                           *)
(***************************************************************************)
\* the tables other than the named one are those of before, as they were
OthersKept(tableName) ==
    /\ DOMAIN tables = DOMAIN before \ {tableName}
    /\ \A n \in DOMAIN tables : tables[n] = before[n]

\* C22: dropTable of a well-formed name returns true exactly when a table of
\* that name existed; afterwards hasTable of the name is false and every other
\* table has the schema and rows it had; when no table had the name nothing
\* changes.  dropTable of a name that is not well formed raises the error of
\* the name check and changes nothing.
C22_DropTableRemovesNamedOnly ==
    call.op = "dropTable" =>
        IF NameWellFormed(call.tableName)
        THEN /\ ~ret.threw
             /\ ret.value = (call.tableName \in DOMAIN before)
             /\ ~hasTable(tables, call.tableName)
             /\ OthersKept(call.tableName)
             /\ call.tableName \notin DOMAIN before => tables = before
        ELSE /\ ret.threw
             /\ ret.what = "DatabaseError"
             /\ tables = before

\* one of two tables is dropped while the other holds a row
C22_Witness ==
    /\ call.op = "dropTable"
    /\ ~ret.threw
    /\ ret.value = TRUE
    /\ call.tableName \in DOMAIN before
    /\ \E n \in DOMAIN tables : tables[n].rows # <<>>

\* C22 as stated: every name that is not present, well formed or not, makes
\* dropTable return false.
C22_AbsentNameReturnsFalse ==
    (call.op = "dropTable" /\ call.tableName \notin DOMAIN before) =>
        /\ ~ret.threw
        /\ ret.value = FALSE
        /\ tables = before

(***************************************************************************)
(* lexer.cpp: the Lexer over source_, a sequence of characters.  A scan    *)
(* step returns the position reached and the tokens so far, or raises      *)
(* LexerError.                                                             *)
(***************************************************************************)
Scanned(cur, toks) == [threw |-> FALSE, cur |-> cur, toks |-> toks]

\* lexer.cpp:292-294: the tokens scanned so far stay in tokens_
error(toks) == [threw |-> TRUE, cur |-> 0, toks |-> toks]

\* std::string built from characters
RECURSIVE string(_)
string(chars) == IF chars = <<>> THEN "" ELSE chars[1] \o string(Tail(chars))

\* token.hpp:282-284
isDigit(c) == c \in {"0", "1", "2", "3", "4", "5", "6", "7", "8", "9"}

\* token.hpp:278-280, over the letters of the texts
isAlpha(c) == c \in {"a", "n", "o", "N", "O"}

\* token.hpp:294-296
isIdentifierStart(c) == isAlpha(c) \/ c = "_"

\* token.hpp:298-300
isIdentifierChar(c) == isAlpha(c) \/ isDigit(c) \/ c = "_"

\* token.hpp:290-292
isWhitespace(c) == c \in {" ", "\t", "\n", "\r"}

\* std::toupper on one character
toupper(c) == CASE c = "a" -> "A" [] c = "n" -> "N" [] c = "o" -> "O" [] OTHER -> c

\* token.hpp:266-274
toUpperCase(word) == [i \in 1..Len(word) |-> toupper(word[i])]

Keywords ==
    {"CREATE", "TABLE", "INSERT", "INTO", "VALUES", "SELECT", "FROM", "WHERE", "UPDATE",
     "SET", "DELETE", "AND", "OR", "NOT", "INNER", "JOIN", "ON", "INT", "STR"}

\* token.hpp:139-182
stringToTokenType(word) ==
    IF string(toUpperCase(word)) \in Keywords THEN string(toUpperCase(word))
    ELSE "IDENTIFIER"

\* the largest int
INT_MAX == 2147483647

digitValue(c) ==
    CASE c = "0" -> 0 [] c = "1" -> 1 [] c = "2" -> 2 [] c = "3" -> 3 [] c = "4" -> 4
      [] c = "5" -> 5 [] c = "6" -> 6 [] c = "7" -> 7 [] c = "8" -> 8 [] c = "9" -> 9

\* std::stoi on a run of digits: the int, or -1 for std::out_of_range
RECURSIVE stoi(_, _, _)
stoi(value, k, acc) ==
    IF k > Len(value) THEN acc
    ELSE IF acc > (INT_MAX - digitValue(value[k])) \div 10 THEN -1
    ELSE stoi(value, k + 1, acc * 10 + digitValue(value[k]))

\* lexer.cpp:170-172
sourceAtEnd(src, cur) == cur >= Len(src)

\* lexer.cpp:148-152
peekChar(src, cur) == IF sourceAtEnd(src, cur) THEN "\\0" ELSE src[cur + 1]

\* lexer.cpp:160-168
matchChar(src, cur, expected) == ~sourceAtEnd(src, cur) /\ src[cur + 1] = expected

\* lexer.cpp:68-72: the comment runs to the end of the line
RECURSIVE skipComment(_, _)
skipComment(src, cur) ==
    IF peekChar(src, cur) # "\n" /\ ~sourceAtEnd(src, cur) THEN skipComment(src, cur + 1)
    ELSE cur

\* lexer.cpp:204-225
escapedChar(escaped) ==
    CASE escaped = "n" -> "\n"
      [] escaped = "t" -> "\t"
      [] escaped = "r" -> "\r"
      [] OTHER -> escaped

\* lexer.cpp:199-229: the position of the closing quote (or the end), and the value
RECURSIVE stringLoop(_, _, _, _)
stringLoop(src, cur, quote, value) ==
    IF ~sourceAtEnd(src, cur) /\ peekChar(src, cur) # quote
    THEN IF src[cur + 1] = "\\" /\ ~sourceAtEnd(src, cur + 1)
         THEN stringLoop(src, cur + 2, quote, Append(value, escapedChar(src[cur + 2])))
         ELSE stringLoop(src, cur + 1, quote, Append(value, src[cur + 1]))
    ELSE [cur |-> cur, value |-> value]

stringScanned(src, body, toks) ==
    IF sourceAtEnd(src, body.cur) THEN error(toks)
    ELSE Scanned(body.cur + 1, Append(toks, StrToken("STRING_LITERAL", string(body.value))))

\* as scanString, but a literal that runs to the end of the source is accepted
scanStringToEnd(src, cur, toks) ==
    Scanned(IF sourceAtEnd(src, stringLoop(src, cur + 1, src[cur + 1], <<>>).cur)
            THEN Len(src) ELSE stringLoop(src, cur + 1, src[cur + 1], <<>>).cur + 1,
            Append(toks, StrToken("STRING_LITERAL",
                                  string(stringLoop(src, cur + 1, src[cur + 1], <<>>).value))))

\* lexer.cpp:195-240, cur at the opening quote
scanString(src, cur, toks) ==
    stringScanned(src, stringLoop(src, cur + 1, src[cur + 1], <<>>), toks)

\* lexer.cpp:246-248
RECURSIVE digitsEnd(_, _)
digitsEnd(src, cur) ==
    IF ~sourceAtEnd(src, cur) /\ isDigit(peekChar(src, cur)) THEN digitsEnd(src, cur + 1)
    ELSE cur

\* lexer.cpp:242-257
scanNumber(src, cur, toks) ==
    IF stoi(SubSeq(src, cur + 1, digitsEnd(src, cur)), 1, 0) = -1 THEN error(toks)
    ELSE Scanned(digitsEnd(src, cur),
                 Append(toks, IntToken(stoi(SubSeq(src, cur + 1, digitsEnd(src, cur)), 1, 0))))

\* lexer.cpp:268-270
RECURSIVE identifierEnd(_, _)
identifierEnd(src, cur) ==
    IF ~sourceAtEnd(src, cur) /\ isIdentifierChar(peekChar(src, cur))
    THEN identifierEnd(src, cur + 1)
    ELSE cur

identifierToken(value) ==
    IF stringToTokenType(value) = "IDENTIFIER" THEN StrToken("IDENTIFIER", string(value))
    ELSE Token(stringToTokenType(value))

\* lexer.cpp:259-280
scanIdentifier(src, cur, toks) ==
    Scanned(identifierEnd(src, cur),
            Append(toks, identifierToken(SubSeq(src, cur + 1, identifierEnd(src, cur)))))

singleCharType(c) ==
    CASE c = "(" -> "LEFT_PAREN"
      [] c = ")" -> "RIGHT_PAREN"
      [] c = "," -> "COMMA"
      [] c = ";" -> "SEMICOLON"
      [] c = "*" -> "ASTERISK"
      [] c = "/" -> "SLASH"
      [] c = "." -> "DOT"
      [] c = "=" -> "EQUAL"

\* lexer.cpp:39-137 with includeWhitespace = false; c is the character at cur
scanToken(src, cur, toks) ==
    CASE src[cur + 1] \in {"(", ")", ",", ";", "*", "/", ".", "="} ->
            Scanned(cur + 1, Append(toks, Token(singleCharType(src[cur + 1]))))
      [] src[cur + 1] = "-" ->
            IF matchChar(src, cur + 1, "-") THEN Scanned(skipComment(src, cur + 2), toks)
            ELSE error(toks)
      [] src[cur + 1] = "!" ->
            IF matchChar(src, cur + 1, "=") THEN Scanned(cur + 2, Append(toks, Token("NOT_EQUAL")))
            ELSE error(toks)
      [] src[cur + 1] = "<" ->
            IF matchChar(src, cur + 1, "=") THEN Scanned(cur + 2, Append(toks, Token("LESS_EQUAL")))
            ELSE Scanned(cur + 1, Append(toks, Token("LESS_THAN")))
      [] src[cur + 1] = ">" ->
            IF matchChar(src, cur + 1, "=")
            THEN Scanned(cur + 2, Append(toks, Token("GREATER_EQUAL")))
            ELSE Scanned(cur + 1, Append(toks, Token("GREATER_THAN")))
      [] src[cur + 1] \in {"'", "\""} -> scanString(src, cur, toks)
      [] src[cur + 1] \in {" ", "\r", "\t", "\n"} -> Scanned(cur + 1, toks)
      [] OTHER ->
            IF isDigit(src[cur + 1]) THEN scanNumber(src, cur, toks)
            ELSE IF isIdentifierStart(src[cur + 1]) THEN scanIdentifier(src, cur, toks)
            ELSE error(toks)

\* lexer.cpp:30-37
RECURSIVE scanTokens(_, _)
scanTokens(src, s) ==
    IF s.threw THEN s
    ELSE IF ~sourceAtEnd(src, s.cur) THEN scanTokens(src, scanToken(src, s.cur, s.toks))
    ELSE Scanned(s.cur, Append(s.toks, Token("END_OF_FILE")))

\* lexer.cpp:10-18
tokenized(s) == IF s.threw THEN Throw("LexerError") ELSE Ok(s.toks)

tokenize(src) == tokenized(scanTokens(src, Scanned(0, <<>>)))

(***************************************************************************)
(* The texts the lexer is run on: up to MaxLexPieces pieces, each a number *)
(* that fits an int or does not, a word, or one other character.           *)
(***************************************************************************)
MaxLexPieces == 3

LexPieces ==
    {"2147483647", "2147483648", "7", "on", "a", "_", "!", "=", "<", "-", "--", "(",
     "'", "\"", "\\", " ", "\n", "#", "n"}

pieceChars(piece) ==
    CASE piece = "2147483647" -> <<"2", "1", "4", "7", "4", "8", "3", "6", "4", "7">>
      [] piece = "2147483648" -> <<"2", "1", "4", "7", "4", "8", "3", "6", "4", "8">>
      [] piece = "on" -> <<"o", "n">>
      [] piece = "--" -> <<"-", "-">>
      [] OTHER -> <<piece>>

RECURSIVE piecesChars(_, _)
piecesChars(pieces, k) ==
    IF k > Len(pieces) THEN <<>> ELSE pieceChars(pieces[k]) \o piecesChars(pieces, k + 1)

LexSources == {piecesChars(ps, 1) : ps \in UNION {[1..n -> LexPieces] : n \in 0..MaxLexPieces}}

\* a Lexer constructed on a text (lexer.hpp)
InitLex ==
    /\ schema = <<>>
    /\ rows = <<>>
    /\ before = <<>>
    /\ inserted = <<>>
    /\ onlyInserts = TRUE
    /\ tables = <<>>
    /\ srcTree \in LexSources
    /\ tokens_ = <<>>
    /\ input = NoInput
    /\ txn = NoTransaction
    /\ file = <<>>
    /\ call = [op |-> "none"]
    /\ ret = Ok(<<>>)

\* Lexer::tokenize on the Lexer's source
Tokenize ==
    /\ call.op = "none"
    /\ call' = [op |-> "tokenize"]
    /\ \E s \in {scanTokens(srcTree, Scanned(0, <<>>))} :
          /\ ret' = tokenized(s)
          /\ tokens_' = s.toks
    /\ UNCHANGED <<schema, rows, before, inserted, onlyInserts, tables, srcTree, input, txn, file>>

NextLex == Tokenize

SpecLex == InitLex /\ [][NextLex]_vars

\* the position after the literal opened at position i (1-based), or 0 when no
\* quote closes it
RECURSIVE closingQuote(_, _, _)
closingQuote(src, quote, j) ==
    IF j > Len(src) THEN 0
    ELSE IF src[j] = quote THEN j + 1
    ELSE IF src[j] = "\\" THEN closingQuote(src, quote, j + 2)
    ELSE closingQuote(src, quote, j + 1)

\* the position after the comment opened at position i: its line end, or the end
RECURSIVE commentEnd(_, _)
commentEnd(src, j) ==
    IF j > Len(src) \/ src[j] = "\n" THEN j ELSE commentEnd(src, j + 1)

\* the position after the run of the characters of class `in` that starts at i
RECURSIVE runEnd(_, _, _)
runEnd(src, j, in) == IF j <= Len(src) /\ src[j] \in in THEN runEnd(src, j + 1, in) ELSE j

Digits == {"0", "1", "2", "3", "4", "5", "6", "7", "8", "9"}
Letters == {"a", "n", "o", "N", "O"}
Punctuation == {"(", ")", ",", ";", "*", "/", ".", "=", "<", ">"}
Blanks == {" ", "\t", "\n", "\r"}

fitsInt(digits) == stoi(digits, 1, 0) # -1

\* the text has, from position i on and outside literals and comments, one of
\* the faults of the lexer; with `words`, the digits of a word are part of
\* the word and not a digit run of their own
RECURSIVE Faulty(_, _, _)
Faulty(src, i, words) ==
    IF i > Len(src) THEN FALSE
    ELSE CASE src[i] \in {"'", "\""} ->
                 \/ closingQuote(src, src[i], i + 1) = 0
                 \/ Faulty(src, closingQuote(src, src[i], i + 1), words)
           [] src[i] = "-" ->
                 \/ ~(i < Len(src) /\ src[i + 1] = "-")
                 \/ Faulty(src, commentEnd(src, i + 2), words)
           [] src[i] = "!" ->
                 \/ ~(i < Len(src) /\ src[i + 1] = "=")
                 \/ Faulty(src, i + 2, words)
           [] src[i] \in Digits ->
                 \/ ~fitsInt(SubSeq(src, i, runEnd(src, i, Digits) - 1))
                 \/ Faulty(src, runEnd(src, i, Digits), words)
           [] src[i] \in Letters \cup {"_"} ->
                 Faulty(src, IF words THEN runEnd(src, i, Letters \cup Digits \cup {"_"})
                             ELSE i + 1, words)
           [] src[i] \in Punctuation \cup Blanks -> Faulty(src, i + 1, words)
           [] OTHER -> TRUE

\* the tokens end with END_OF_FILE and hold no other END_OF_FILE
EndsWithOneEOF(toks) ==
    /\ toks # <<>>
    /\ toks[Len(toks)].type = "END_OF_FILE"
    /\ \A k \in 1..(Len(toks) - 1) : toks[k].type # "END_OF_FILE"

\* C23: tokenize raises LexerError and returns no tokens exactly when the
\* text, outside string literals and comments, has a '!' not followed by '=',
\* a quote that no later unescaped quote of its kind closes, a '-' not
\* followed by '-', a number (a digit run that does not continue a word) that
\* does not fit an int, or a character that is not a blank, punctuation, a
\* digit, a letter or an underscore; on every other text it returns tokens
\* that end with exactly one END_OF_FILE.
C23_TokenizeRaisesOnFaultsOnly ==
    call.op = "tokenize" =>
        IF Faulty(srcTree, 1, TRUE)
        THEN ret.threw /\ ret.what = "LexerError" /\ ret.value = <<>>
        ELSE ~ret.threw /\ ret.value = tokens_ /\ EndsWithOneEOF(ret.value)

\* a number one above the largest int, after a comment line
C23_Witness ==
    /\ call.op = "tokenize"
    /\ srcTree = <<"-", "-", "\n">> \o pieceChars("2147483648")
    /\ ret.threw

\* C23 as stated: every digit run that does not fit an int, the digits that
\* end a word included, makes tokenize raise.
C23_EveryDigitRunMustFit ==
    call.op = "tokenize" =>
        IF Faulty(srcTree, 1, FALSE)
        THEN ret.threw /\ ret.what = "LexerError" /\ ret.value = <<>>
        ELSE ~ret.threw /\ ret.value = tokens_ /\ EndsWithOneEOF(ret.value)

(***************************************************************************)
(* database.hpp:166-195: Database::Transaction.  A rollback action is a    *)
(* callback; the k-th registered one appends k to `ran` when it is called. *)
(* `registered`, `rolledBack` and `rolledBackAt` record the calls made:    *)
(* the actions registered so far, whether rollback() was called, and how   *)
(* many actions were registered when it last was.                          *)
(***************************************************************************)
MaxActions == 3

RECURSIVE reversed(_)
reversed(actions) ==
    IF actions = <<>> THEN <<>> ELSE Append(reversed(Tail(actions)), Head(actions))

\* database.hpp:173-174
Transaction ==
    [rollbackActions |-> <<>>, committed |-> FALSE, destroyed |-> FALSE, ran |-> <<>>,
     registered |-> <<>>, rolledBack |-> FALSE, rolledBackAt |-> 0]

\* database.hpp:181-183
addRollbackAction(t, action) ==
    [t EXCEPT !.rollbackActions = Append(@, action), !.registered = Append(@, action)]

\* database.hpp:185-188
commit(t) == [t EXCEPT !.committed = TRUE, !.rollbackActions = <<>>]

\* as rollback, but the actions run in the order of their registration
rollbackForward(t) ==
    [t EXCEPT !.ran = @ \o t.rollbackActions, !.rollbackActions = <<>>]

\* database.hpp:190-195
rollback(t) ==
    [t EXCEPT !.ran = @ \o reversed(t.rollbackActions), !.rollbackActions = <<>>]

\* database.hpp:175-179
destroy(t) == [(IF ~t.committed THEN rollback(t) ELSE t) EXCEPT !.destroyed = TRUE]

\* Database::beginTransaction (database.hpp:198-200)
InitTxn ==
    /\ schema = <<>>
    /\ rows = <<>>
    /\ before = <<>>
    /\ inserted = <<>>
    /\ onlyInserts = TRUE
    /\ tables = <<>>
    /\ tokens_ = <<>>
    /\ srcTree = <<>>
    /\ input = NoInput
    /\ txn = Transaction
    /\ file = <<>>
    /\ call = [op |-> "beginTransaction"]
    /\ ret = Ok(<<>>)

\* a call on the Transaction; `value` is the actions the call has run
TxnCalled(op, t) ==
    /\ ~txn.destroyed
    /\ txn' = t
    /\ call' = [op |-> op]
    /\ ret' = Ok(SubSeq(t.ran, Len(txn.ran) + 1, Len(t.ran)))
    /\ UNCHANGED <<schema, rows, before, inserted, onlyInserts, tables, tokens_, srcTree, input, file>>

AddRollbackAction ==
    /\ Len(txn.registered) < MaxActions
    /\ TxnCalled("addRollbackAction", addRollbackAction(txn, Len(txn.registered) + 1))

Commit == TxnCalled("commit", commit(txn))

Rollback ==
    TxnCalled("rollback",
              [rollback(txn) EXCEPT !.rolledBack = TRUE, !.rolledBackAt = Len(txn.registered)])

Destroy == TxnCalled("~Transaction", destroy(txn))

NextTxn == AddRollbackAction \/ Commit \/ Rollback \/ Destroy

SpecTxn == InitTxn /\ [][NextTxn]_vars

\* how many times the action has run
RECURSIVE timesRun(_, _)
timesRun(ran, action) ==
    IF ran = <<>> THEN 0
    ELSE (IF Head(ran) = action THEN 1 ELSE 0) + timesRun(Tail(ran), action)

\* the actions registered after the last rollback() call
sinceRollback(t) == SubSeq(t.registered, t.rolledBackAt + 1, Len(t.registered))

npos == -1

\* the characters of the names and texts the exported databases hold
characters(str) ==
    CASE str = "L" -> <<"L">>
      [] str = "R" -> <<"R">>
      [] str = "id" -> <<"i", "d">>
      [] str = "name" -> <<"n", "a", "m", "e">>
      [] str = "dept" -> <<"d", "e", "p", "t">>
      [] str = "x" -> <<"x">>
      [] str = "x,y" -> <<"x", ",", "y">>
      [] str = "x\"y" -> <<"x", "\"", "y">>
      [] str = "x\\" -> <<"x", "\\">>
      [] str = "x\ny" -> <<"x", "\n", "y">>
      [] str = "[x" -> <<"[", "x">>
      [] str = "x]" -> <<"x", "]">>
      [] str = "{x" -> <<"{", "x">>
      [] str = "x}" -> <<"x", "}">>
      [] str = "" -> <<>>

\* std::string::find: the first position from pos on where pat is, or npos
findText(s, pat, pos) ==
    IF \E i \in pos..(Len(s) - Len(pat)) : SubSeq(s, i + 1, i + Len(pat)) = pat
    THEN CHOOSE i \in pos..(Len(s) - Len(pat)) :
            /\ SubSeq(s, i + 1, i + Len(pat)) = pat
            /\ \A j \in pos..(i - 1) : SubSeq(s, j + 1, j + Len(pat)) # pat
    ELSE npos

\* the first position from pos on that holds one of the characters, or npos
findFirstOf(s, chars, pos) ==
    IF \E i \in pos..(Len(s) - 1) : s[i + 1] \in chars
    THEN CHOOSE i \in pos..(Len(s) - 1) :
            /\ s[i + 1] \in chars
            /\ \A j \in pos..(i - 1) : s[j + 1] \notin chars
    ELSE npos

\* std::string::rfind: the last position where pat is, or npos
rfind(s, pat) ==
    IF \E i \in 0..(Len(s) - Len(pat)) : SubSeq(s, i + 1, i + Len(pat)) = pat
    THEN CHOOSE i \in 0..(Len(s) - Len(pat)) :
            /\ SubSeq(s, i + 1, i + Len(pat)) = pat
            /\ \A j \in (i + 1)..(Len(s) - Len(pat)) : SubSeq(s, j + 1, j + Len(pat)) # pat
    ELSE npos

\* std::string::substr; a count below 0 is a size_t that wrapped around
substr(s, pos, n) == SubSeq(s, pos + 1, IF n < 0 \/ pos + n > Len(s) THEN Len(s) ELSE pos + n)

\* std::to_string of an int that is not negative
RECURSIVE digitsOf(_)
digitsOf(n) ==
    IF n < 10 THEN <<CHOOSE c \in Digits : digitValue(c) = n>>
    ELSE Append(digitsOf(n \div 10), CHOOSE c \in Digits : digitValue(c) = n % 10)

\* Value::toString (value.cpp)
toString(value) ==
    IF value.type = "INT"
    THEN (IF value.int < 0 THEN <<"-">> \o digitsOf(-value.int) ELSE digitsOf(value.int))
    ELSE characters(value.str)

\* persistence.cpp:321-349
RECURSIVE escapeJsonString(_)
escapeJsonString(str) ==
    IF str = <<>> THEN <<>>
    ELSE (CASE Head(str) = "\"" -> <<"\\", "\"">>
            [] Head(str) = "\\" -> <<"\\", "\\">>
            [] Head(str) = "\n" -> <<"\\", "n">>
            [] Head(str) = "\r" -> <<"\\", "r">>
            [] Head(str) = "\t" -> <<"\\", "t">>
            [] OTHER -> <<Head(str)>>) \o escapeJsonString(Tail(str))

\* persistence.cpp:300-306
valueToJson(value) ==
    IF value.type = "INT" THEN toString(value)
    ELSE <<"\"">> \o escapeJsonString(toString(value)) \o <<"\"">>

\* persistence.cpp:143-155
RECURSIVE exportSchema(_, _)
exportSchema(sch, i) ==
    IF i > Len(sch) THEN <<>>
    ELSE <<" ", " ", " ", " ", " ", " ", " ", " ", "{", "\n">> \o <<" ", " ", " ", " ", " ", " ", " ", " ", " ", " ", "\"", "n", "a", "m", "e", "\"", ":", " ", "\"">> \o characters(sch[i].name) \o <<"\"", ",", "\n">>
         \o <<" ", " ", " ", " ", " ", " ", " ", " ", " ", " ", "\"", "t", "y", "p", "e", "\"", ":", " ", "\"">>
         \o (IF sch[i].type = "INT" THEN <<"i", "n", "t">> ELSE <<"s", "t", "r">>) \o <<"\"", "\n">>
         \o <<" ", " ", " ", " ", " ", " ", " ", " ", "}">> \o (IF i < Len(sch) THEN <<",">> ELSE <<>>) \o <<"\n">>
         \o exportSchema(sch, i + 1)

\* persistence.cpp:169-175
RECURSIVE exportValues(_, _)
exportValues(values, j) ==
    IF j > Len(values) THEN <<>>
    ELSE valueToJson(values[j]) \o (IF j < Len(values) THEN <<",", " ">> ELSE <<>>)
         \o exportValues(values, j + 1)

\* persistence.cpp:163-184
RECURSIVE exportRows(_, _)
exportRows(rs, i) ==
    IF i > Len(rs) THEN <<>>
    ELSE <<" ", " ", " ", " ", " ", " ", " ", " ", "[">> \o exportValues(rs[i], 1) \o <<"]">>
         \o (IF i < Len(rs) THEN <<",">> ELSE <<>>) \o <<"\n">>
         \o exportRows(rs, i + 1)

\* persistence.cpp:132-189
exportTableToJson(table, tableName) ==
    <<"{", "\n">> \o <<" ", " ", " ", " ", " ", " ", "\"", "n", "a", "m", "e", "\"", ":", " ", "\"">> \o characters(tableName) \o <<"\"", ",", "\n">>
    \o <<" ", " ", " ", " ", " ", " ", "\"", "s", "c", "h", "e", "m", "a", "\"", ":", " ", "[", "\n">> \o exportSchema(table.schema, 1) \o <<" ", " ", " ", " ", " ", " ", "]", ",", "\n">>
    \o <<" ", " ", " ", " ", " ", " ", "\"", "d", "a", "t", "a", "\"", ":", " ", "[", "\n">> \o exportRows(table.rows, 1) \o <<" ", " ", " ", " ", " ", " ", "]", "\n">> \o <<" ", " ", " ", " ", "}">>

\* Database::getTableNames (database.cpp:109-120): the names in alphabetical order
getTableNames(tbls) ==
    (IF "L" \in DOMAIN tbls THEN <<"L">> ELSE <<>>) \o (IF "R" \in DOMAIN tbls THEN <<"R">> ELSE <<>>)

\* persistence.cpp:22-32
RECURSIVE exportTables(_, _, _)
exportTables(tbls, tableNames, i) ==
    IF i > Len(tableNames) THEN <<>>
    ELSE <<" ", " ", " ", " ", "\"">> \o characters(tableNames[i]) \o <<"\"", ":", " ">>
         \o exportTableToJson(tbls[tableNames[i]], tableNames[i])
         \o (IF i < Len(tableNames) THEN <<",">> ELSE <<>>) \o <<"\n">>
         \o exportTables(tbls, tableNames, i + 1)

\* persistence.cpp:7-46: the content of the file written
exportDatabase(tbls) ==
    <<"{", "\n">> \o <<" ", " ", "\"", "f", "o", "r", "m", "a", "t", "_", "v", "e", "r", "s", "i", "o", "n", "\"", ":", " ", "\"", "1", ".", "0", "\"", ",", "\n">> \o <<" ", " ", "\"", "d", "a", "t", "a", "b", "a", "s", "e", "_", "n", "a", "m", "e", "\"", ":", " ", "\"", "T", "i", "n", "y", "D", "B", "\"", ",", "\n">>
    \o <<" ", " ", "\"", "t", "a", "b", "l", "e", "s", "\"", ":", " ", "{", "\n">> \o exportTables(tbls, getTableNames(tbls), 1) \o <<" ", " ", "}", "\n">> \o <<"}", "\n">>

\* persistence.cpp:351-388, from the character at i on
RECURSIVE unescapeJsonString(_, _)
unescapeJsonString(str, i) ==
    IF i >= Len(str) THEN <<>>
    ELSE IF str[i + 1] = "\\" /\ i + 1 < Len(str)
    THEN CASE str[i + 2] = "\"" -> <<"\"">> \o unescapeJsonString(str, i + 2)
           [] str[i + 2] = "\\" -> <<"\\">> \o unescapeJsonString(str, i + 2)
           [] str[i + 2] = "n" -> <<"\n">> \o unescapeJsonString(str, i + 2)
           [] str[i + 2] = "r" -> <<"\r">> \o unescapeJsonString(str, i + 2)
           [] str[i + 2] = "t" -> <<"\t">> \o unescapeJsonString(str, i + 2)
           [] OTHER -> <<str[i + 1]>> \o unescapeJsonString(str, i + 1)
    ELSE <<str[i + 1]>> \o unescapeJsonString(str, i + 1)

\* std::stoi: blanks, a sign, then the digits up to the first other character
stoiDigits(str, from, negative) ==
    IF runEnd(str, from, Digits) = from THEN Throw("invalid_argument")
    ELSE IF ~fitsInt(SubSeq(str, from, runEnd(str, from, Digits) - 1)) THEN Throw("out_of_range")
    ELSE Ok((IF negative THEN -1 ELSE 1)
            * stoi(SubSeq(str, from, runEnd(str, from, Digits) - 1), 1, 0))

stoiSigned(str, from) ==
    IF from <= Len(str) /\ str[from] \in {"-", "+"} THEN stoiDigits(str, from + 1, str[from] = "-")
    ELSE stoiDigits(str, from, FALSE)

stoiText(str) == stoiSigned(str, runEnd(str, 1, Blanks))

jsonToInt(n) == IF n.threw THEN Throw("PersistenceError") ELSE Ok(IntValue(n.value))

\* persistence.cpp:308-319
jsonToValue(json, type) ==
    IF type = "INT" THEN jsonToInt(stoiText(json))
    ELSE Ok(StrValue(string(unescapeJsonString(json, 0))))

searchKey(key) == <<"\"">> \o key \o <<"\"", ":">>

parseJsonStringTo(json, valueStart, valueEnd) ==
    IF valueEnd = npos THEN Throw("PersistenceError")
    ELSE Ok(substr(json, valueStart + 1, valueEnd - valueStart - 1))

parseJsonStringFrom(json, valueStart) ==
    IF valueStart = npos THEN Throw("PersistenceError")
    ELSE parseJsonStringTo(json, valueStart, findText(json, <<"\"">>, valueStart + 1))

parseJsonStringAt(json, key, keyPos) ==
    IF keyPos = npos THEN Throw("PersistenceError")
    ELSE parseJsonStringFrom(json, findText(json, <<"\"">>, keyPos + Len(searchKey(key))))

\* persistence.cpp:390-408
parseJsonString(json, key) == parseJsonStringAt(json, key, findText(json, searchKey(key), 0))

\* persistence.cpp:101-108 and 450-458: the position after the bracket that
\* closes the one opened before `end`, or the end of the text; the loop
\* passes over the characters that are no bracket, `at` is the next bracket
RECURSIVE matchingEnd(_, _, _, _, _)
matchingEndAt(s, at, count, open, close) ==
    IF at = npos THEN Len(s)
    ELSE matchingEnd(s, at + 1, IF s[at + 1] = open THEN count + 1 ELSE count - 1, open, close)

matchingEnd(s, end, count, open, close) ==
    IF end < Len(s) /\ count > 0
    THEN matchingEndAt(s, findFirstOf(s, {open, close}, end), count, open, close)
    ELSE end

parseJsonArrayFrom(json, arrayStart) ==
    IF arrayStart = npos THEN Throw("PersistenceError")
    ELSE Ok(substr(json, arrayStart + 1,
                   matchingEnd(json, arrayStart + 1, 1, "[", "]") - arrayStart - 2))

parseJsonArrayAt(json, keyPos) ==
    IF keyPos = npos THEN Throw("PersistenceError")
    ELSE parseJsonArrayFrom(json, findText(json, <<"[">>, keyPos))

\* persistence.cpp:437-460
parseJsonArray(json, key) == parseJsonArrayAt(json, findText(json, searchKey(key), 0))

\* persistence.cpp:199-220
RECURSIVE schemaLoop(_, _, _)
schemaColumn(schemaStr, objEnd, columns, columnName, columnType) ==
    IF columnName.threw \/ columnType.threw THEN Throw("PersistenceError")
    ELSE schemaLoop(schemaStr, objEnd + 1,
                    Append(columns, Column(string(columnName.value),
                                           IF columnType.value = <<"i", "n", "t">> THEN "INT" ELSE "STR")))

schemaObject(schemaStr, objStart, objEnd, columns) ==
    IF objEnd = npos THEN Ok(columns)
    ELSE schemaColumn(schemaStr, objEnd, columns,
            parseJsonString(substr(schemaStr, objStart, objEnd - objStart + 1), <<"n", "a", "m", "e">>),
            parseJsonString(substr(schemaStr, objStart, objEnd - objStart + 1), <<"t", "y", "p", "e">>))

schemaObjectAt(schemaStr, objStart, columns) ==
    IF objStart = npos THEN Ok(columns)
    ELSE schemaObject(schemaStr, objStart, findText(schemaStr, <<"}">>, objStart), columns)

schemaLoop(schemaStr, pos, columns) ==
    IF pos >= Len(schemaStr) THEN Ok(columns)
    ELSE schemaObjectAt(schemaStr, findText(schemaStr, <<"{">>, pos), columns)

\* persistence.cpp:245-248
RECURSIVE skipSeparators(_, _)
skipSeparators(rowStr, valuePos) ==
    IF valuePos < Len(rowStr) /\ rowStr[valuePos + 1] \in {" ", ","}
    THEN skipSeparators(rowStr, valuePos + 1)
    ELSE valuePos

\* persistence.cpp:272-274
RECURSIVE trimmed(_)
trimmed(valueStr) ==
    IF valueStr # <<>> /\ valueStr[Len(valueStr)] = " "
    THEN trimmed(SubSeq(valueStr, 1, Len(valueStr) - 1))
    ELSE valueStr

ValueText(valueStr, valuePos) == [valueStr |-> valueStr, valuePos |-> valuePos]

\* persistence.cpp:257-261: a text with no closing quote leaves the value
\* empty and the position where it was
stringValueText(rowStr, valuePos, stringEnd) ==
    IF stringEnd # npos
    THEN ValueText(substr(rowStr, valuePos + 1, stringEnd - valuePos - 1), stringEnd + 1)
    ELSE ValueText(<<>>, valuePos)

\* persistence.cpp:264-274
numericValueText(rowStr, valuePos, nextComma) ==
    IF nextComma = npos
    THEN ValueText(trimmed(substr(rowStr, valuePos, npos)), Len(rowStr))
    ELSE ValueText(trimmed(substr(rowStr, valuePos, nextComma - valuePos)), nextComma)

\* persistence.cpp:254-275
valueText(rowStr, valuePos) ==
    IF rowStr[valuePos + 1] = "\""
    THEN stringValueText(rowStr, valuePos, findText(rowStr, <<"\"">>, valuePos + 1))
    ELSE numericValueText(rowStr, valuePos, findText(rowStr, <<",">>, valuePos))

\* persistence.cpp:243-282
RECURSIVE valueLoop(_, _, _, _, _)
valueParsed(rowStr, valuePos, columnIndex, values, columns, value) ==
    IF value.threw THEN Throw("PersistenceError")
    ELSE valueLoop(rowStr, valuePos, columnIndex + 1, Append(values, value.value), columns)

valueTaken(rowStr, text, columnIndex, values, columns) ==
    valueParsed(rowStr, text.valuePos, columnIndex, values, columns,
                jsonToValue(text.valueStr, columns[columnIndex + 1].type))

valueAt(rowStr, valuePos, columnIndex, values, columns) ==
    IF valuePos >= Len(rowStr) THEN Ok(values)
    ELSE valueTaken(rowStr, valueText(rowStr, valuePos), columnIndex, values, columns)

valueLoop(rowStr, valuePos, columnIndex, values, columns) ==
    IF valuePos < Len(rowStr) /\ columnIndex < Len(columns)
    THEN valueAt(rowStr, skipSeparators(rowStr, valuePos), columnIndex, values, columns)
    ELSE Ok(values)

\* persistence.cpp:227-291
RECURSIVE rowLoop(_, _, _, _, _)
rowInserted(dataStr, arrayEnd, r, tableName, columns) ==
    IF r.threw THEN DbThrown("PersistenceError", r.tables)
    ELSE rowLoop(dataStr, arrayEnd + 1, r.tables, tableName, columns)

rowValues(dataStr, arrayEnd, tbls, tableName, columns, values) ==
    IF values.threw THEN DbThrown("PersistenceError", tbls)
    ELSE IF values.value # <<>>
    THEN rowInserted(dataStr, arrayEnd, insertInto(tbls, tableName, values.value),
                     tableName, columns)
    ELSE rowLoop(dataStr, arrayEnd + 1, tbls, tableName, columns)

rowArray(dataStr, arrayStart, arrayEnd, tbls, tableName, columns) ==
    IF arrayEnd = npos THEN DbDone(<<>>, tbls)
    ELSE rowValues(dataStr, arrayEnd, tbls, tableName, columns,
                   valueLoop(substr(dataStr, arrayStart + 1, arrayEnd - arrayStart - 1),
                             0, 0, <<>>, columns))

rowArrayAt(dataStr, arrayStart, tbls, tableName, columns) ==
    IF arrayStart = npos THEN DbDone(<<>>, tbls)
    ELSE rowArray(dataStr, arrayStart, findText(dataStr, <<"]">>, arrayStart), tbls, tableName,
                  columns)

rowLoop(dataStr, pos, tbls, tableName, columns) ==
    IF pos >= Len(dataStr) THEN DbDone(<<>>, tbls)
    ELSE rowArrayAt(dataStr, findText(dataStr, <<"[">>, pos), tbls, tableName, columns)

\* persistence.cpp:223-227
tableData(created, tableName, columns, dataStr) ==
    IF created.threw \/ dataStr.threw THEN DbThrown("PersistenceError", created.tables)
    ELSE rowLoop(dataStr.value, 0, created.tables, tableName, columns)

\* persistence.cpp:221-224
tableCreated(json, tbls, tableName, columns) ==
    IF columns.threw THEN DbThrown("PersistenceError", tbls)
    ELSE tableData(createTable(tbls, tableName, columns.value), tableName, columns.value,
                   parseJsonArray(json, <<"d", "a", "t", "a">>))

tableSchema(json, tbls, tableName, schemaStr) ==
    IF schemaStr.threw THEN DbThrown("PersistenceError", tbls)
    ELSE tableCreated(json, tbls, tableName, schemaLoop(schemaStr.value, 0, <<>>))

\* persistence.cpp:191-298
importTableFromJson(json, tbls, tableName) ==
    tableSchema(json, tbls, tableName, parseJsonArray(json, <<"s", "c", "h", "e", "m", "a">>))

\* persistence.cpp:79-116
RECURSIVE tableLoop(_, _, _)
tableImported(tablesContent, tableEnd, imported) ==
    IF imported.threw THEN Throw("PersistenceError")
    ELSE tableLoop(tablesContent, tableEnd, imported.tables)

tableJsonTo(tablesContent, tableName, tableStart, tableEnd, tbls) ==
    tableImported(tablesContent, tableEnd,
                  importTableFromJson(substr(tablesContent, tableStart, tableEnd - tableStart),
                                      tbls, string(tableName)))

tableJsonAt(tablesContent, tableName, tableStart, tbls) ==
    IF tableStart = npos THEN Ok(tbls)
    ELSE tableJsonTo(tablesContent, tableName, tableStart,
                     matchingEnd(tablesContent, tableStart + 1, 1, "{", "}"), tbls)

tableColon(tablesContent, tableName, colonPos, tbls) ==
    IF colonPos = npos THEN Ok(tbls)
    ELSE tableJsonAt(tablesContent, tableName, findText(tablesContent, <<"{">>, colonPos), tbls)

tableNameTo(tablesContent, nameStart, nameEnd, tbls) ==
    IF nameEnd = npos THEN Ok(tbls)
    ELSE tableColon(tablesContent, substr(tablesContent, nameStart + 1, nameEnd - nameStart - 1),
                    findText(tablesContent, <<":">>, nameEnd), tbls)

tableNameAt(tablesContent, nameStart, tbls) ==
    IF nameStart = npos THEN Ok(tbls)
    ELSE tableNameTo(tablesContent, nameStart, findText(tablesContent, <<"\"">>, nameStart + 1), tbls)

tableLoop(tablesContent, pos, tbls) ==
    IF pos >= Len(tablesContent) THEN Ok(tbls)
    ELSE tableNameAt(tablesContent, findText(tablesContent, <<"\"">>, pos), tbls)

\* persistence.cpp:70-77
tablesContentOf(content, tablesStart, tablesEnd) ==
    IF tablesStart = npos \/ tablesEnd = npos THEN Throw("PersistenceError")
    ELSE tableLoop(substr(content, tablesStart + 1, tablesEnd - tablesStart - 1), 0, <<>>)

tablesAt(content, tablesStart) ==
    IF tablesStart = npos THEN Throw("PersistenceError")
    ELSE tablesContentOf(content, findText(content, <<"{">>, tablesStart), rfind(content, <<"}">>))

\* persistence.cpp:48-122, on the content of the file read
importDatabase(content) ==
    IF content = <<>> THEN Throw("PersistenceError")
    ELSE tablesAt(content, findText(content, <<"\"", "t", "a", "b", "l", "e", "s", "\"", ":", " ", "{">>, 0))

(***************************************************************************)
(* The databases written to the file: table L with an int column and a     *)
(* text column and up to MaxFileRows rows, with or without a table R of    *)
(* two int columns after it.                                               *)
(***************************************************************************)
MaxFileRows == 2

FileTexts == {"x", "x,y", "x\"y", "x\\", "x\ny", "[x", "x]", "{x", "x}", ""}

FileRows == {<<IntValue(1), StrValue(text)>> : text \in FileTexts}

FileTable(tableName, sch, rs) == [name |-> tableName, schema |-> sch, rows |-> rs]

Databases ==
    {[n \in (IF withR THEN {"L", "R"} ELSE {"L"}) |->
        IF n = "L" THEN FileTable("L", RSchema, rs)
        ELSE FileTable("R", LSchema, <<<<IntValue(12), IntValue(-7)>>>>)] :
        rs \in UNION {[1..k -> FileRows] : k \in 0..MaxFileRows}, withR \in BOOLEAN}

InitFile ==
    /\ schema = <<>>
    /\ rows = <<>>
    /\ before = <<>>
    /\ inserted = <<>>
    /\ onlyInserts = TRUE
    /\ tables \in Databases
    /\ tokens_ = <<>>
    /\ srcTree = <<>>
    /\ input = NoInput
    /\ txn = NoTransaction
    /\ file = <<>>
    /\ call = [op |-> "none"]
    /\ ret = Ok(<<>>)

\* PersistenceManager::exportDatabase(database, filename)
ExportDatabase ==
    /\ call.op = "none"
    /\ file' = exportDatabase(tables)
    /\ call' = [op |-> "exportDatabase"]
    /\ ret' = Ok(<<>>)
    /\ UNCHANGED <<schema, rows, before, inserted, onlyInserts, tables, tokens_, srcTree, input, txn>>

\* PersistenceManager::importDatabase(filename) of the file just written
ImportDatabase ==
    /\ call.op = "exportDatabase"
    /\ call' = [op |-> "importDatabase"]
    /\ \E r \in {importDatabase(file)} : ret' = r
    /\ UNCHANGED <<schema, rows, before, inserted, onlyInserts, tables, tokens_, srcTree, input, txn,
                   file>>

NextFile == ExportDatabase \/ ImportDatabase

SpecFile == InitFile /\ [][NextFile]_vars

\* the texts of the rows of the table
TextsOf(table) ==
    {table.rows[i][j].str : i \in 1..Len(table.rows), j \in 1..Len(table.schema)}

\* a character the reader of the file takes for the end of a text, of a row
\* or of a table
Delimiters == {"\"", "]", "}"}

\* C25: importDatabase of the file exportDatabase wrote for a Database returns
\* a Database with the same table names, schemas and rows in the same order,
\* whatever characters the text values hold.
C25_ImportOfExportIsSame ==
    call.op = "importDatabase" => ~ret.threw /\ ret.value = tables

\* the round trip does hold for the databases none of whose texts has a
\* double quote, a closing bracket or a brace
C25_ImportOfExportWithoutDelimiters ==
    (/\ call.op = "importDatabase"
     /\ \A n \in DOMAIN tables : \A text \in TextsOf(tables[n]) :
            \A k \in 1..Len(characters(text)) :
                characters(text)[k] \notin Delimiters \cup {"{"})
        => ~ret.threw /\ ret.value = tables

(***************************************************************************)
(* UPDATE and DELETE statements run by SQLExecutor::executeStatement on a  *)
(* Database whose table L (id, dept) holds up to MaxRows rows.             *)
(***************************************************************************)
ExecRows ==
    {<<IntValue(1), IntValue(1)>>, <<IntValue(2), IntValue(1)>>, <<IntValue(2), IntValue(2)>>}

ExecDatabases ==
    {[n \in {"L"} |-> FileTable("L", LSchema, rs)] :
        rs \in UNION {[1..k -> ExecRows] : k \in 0..MaxRows}}

\* UPDATE L SET dept = 2 [WHERE id = 1]; DELETE FROM L [WHERE id = 1]
ExecStatements ==
    {Statement("UPDATE",
               UpdateStatement("L", <<<<"dept", LiteralExpression(IntValue(2))>>>>, where)) :
        where \in {NullCondition, IdEq1}}
    \cup {Statement("DELETE", DeleteStatement("L", where)) : where \in {NullCondition, IdEq1}}

InitExec ==
    /\ schema = <<>>
    /\ rows = <<>>
    /\ before = <<>>
    /\ inserted = <<>>
    /\ onlyInserts = TRUE
    /\ tables \in ExecDatabases
    /\ tokens_ = <<>>
    /\ srcTree = <<>>
    /\ input = NoInput
    /\ txn = NoTransaction
    /\ file = <<>>
    /\ call = [op |-> "none"]
    /\ ret = Ok(NoOutput)

StatementExecuted(st, r) ==
    /\ tables' = r.tables
    /\ before' = tables
    /\ call' = [op |-> "executeStatement", type |-> st.type, where |-> st.stmt.where]
    /\ ret' = [threw |-> r.threw, what |-> r.what, value |-> r.value]
    /\ UNCHANGED <<schema, rows, inserted, onlyInserts, tokens_, srcTree, input, txn, file>>

\* SQLExecutor::executeStatement (main.cpp:110-134) on an UPDATE or a DELETE
ExecuteStatement ==
    /\ call.op = "none"
    /\ \E st \in ExecStatements, mf \in MovedFromStates, order \in Orders({"dept"}) :
          \E r \in {executeStatement(tables, st, order, mf)} : StatementExecuted(st, r)

NextExec == ExecuteStatement

SpecExec == InitExec /\ [][NextExec]_vars

\* C26: an UPDATE with no WHERE clause sets the assigned column in every row
\* of the table and leaves the other column as it was, and a DELETE with no
\* WHERE clause leaves the table with no rows.
C26_NoWhereAppliesToEveryRow ==
    (call.op = "executeStatement" /\ call.where = NullCondition) =>
        /\ ~ret.threw
        /\ call.type = "UPDATE" =>
              /\ Len(tables["L"].rows) = Len(before["L"].rows)
              /\ \A i \in 1..Len(tables["L"].rows) :
                    /\ tables["L"].rows[i][2] = IntValue(2)
                    /\ tables["L"].rows[i][1] = before["L"].rows[i][1]
        /\ call.type = "DELETE" => tables["L"].rows = <<>>

\* what the statements with no WHERE clause do: nothing on a table with no
\* rows, and on any other table they raise std::bad_function_call and leave
\* the rows as they were
C26_NoWhereRaisesOnRows ==
    (call.op = "executeStatement" /\ call.where = NullCondition) =>
        /\ tables = before
        /\ ret.threw <=> before["L"].rows # <<>>
        /\ ret.threw => ret.what = "bad_function_call"

(***************************************************************************)
(* Database::validate (database.cpp:188-234).  The errors are a list whose *)
(* order and wording follow the iteration order of the unordered_map; they *)
(* are kept here as the set of what they report.                           *)
(***************************************************************************)
\* ::tolower on every character of the names the calls are made with
tolower(name) == CASE name = "L" -> "l" [] name = "R" -> "r" [] OTHER -> name

ValidationError(kind, name) == [kind |-> kind, name |-> name]

\* database.cpp:193-204: a name whose lower-case form another name has too
nameConflicts(tbls) ==
    {ValidationError("Table name conflict", tolower(n)) :
        n \in {m \in DOMAIN tbls : \E o \in DOMAIN tbls : o # m /\ tolower(o) = tolower(m)}}

\* database.cpp:207-224
tableErrors(tbls) ==
    {ValidationError("has no columns", n) : n \in {m \in DOMAIN tbls : tbls[m].schema = <<>>}}
    \cup {ValidationError("has duplicate column", n) :
            n \in {m \in DOMAIN tbls :
                      \E i, j \in 1..Len(tbls[m].schema) :
                          i < j /\ tbls[m].schema[i].name = tbls[m].schema[j].name}}

ValidationResult(errors) == [isValid |-> errors = {}, errors |-> errors]

\* database.cpp:188-234
validate(tbls) == ValidationResult(nameConflicts(tbls) \cup tableErrors(tbls))

\* Database::validate, database.cpp:188-234
Validate ==
    /\ call.op = "none"
    /\ DbRead([op |-> "validate"], Ok(validate(tables)))

ValidateNames == {"L", "l"}
ValidateRows == {<<IntValue(1), IntValue(1)>>, <<IntValue(1)>>}

VCreate ==
    \E tableName \in ValidateNames, sch \in {LSchema, <<>>, DupSchema} : CreateTable(tableName, sch)
VDrop == \E tableName \in ValidateNames : DropTable(tableName)
VInsert == \E tableName \in ValidateNames, values \in ValidateRows : InsertInto(tableName, values)
VUpdate ==
    \E tableName \in ValidateNames :
        UpdateTable(tableName, IdEq1, [c \in {"id"} |-> IntValue(2)], <<"id">>)
VDelete == \E tableName \in ValidateNames, mf \in MovedFromStates : DeleteFrom(tableName, IdEq1, mf)

NextValidate == VCreate \/ VDrop \/ VInsert \/ VUpdate \/ VDelete \/ Validate \/ Return

\* a Database as its constructor leaves it: no tables
SpecValidate == InitJoin /\ [][NextValidate]_vars

\* C27: validate() of a Database reached by createTable, dropTable,
\* insertInto, updateTable and deleteFrom calls returns isValid = true and no
\* errors.
C27_ReachedDatabaseIsValid ==
    call.op = "validate" => ret.value.isValid /\ ret.value.errors = {}

\* validate() never reports a table with no columns or with a column named
\* twice, and reports a name conflict exactly when two tables have names that
\* differ in the case of their letters only
C27_InvalidOnlyByCaseCollision ==
    call.op = "validate" =>
        /\ \A e \in ret.value.errors : e.kind = "Table name conflict"
        /\ ret.value.isValid <=> ~({"L", "l"} \subseteq DOMAIN tables)

(***************************************************************************)
(* SELECT statements with two INNER JOIN clauses, on a Database that holds *)
(* the tables L and R with up to MaxJoinedRows rows each, with or without  *)
(* a third table _r2.  The second clause joins L again or _r2, on a        *)
(* condition that can be evaluated or on one that names a column no table  *)
(* has.                                                                    *)
(***************************************************************************)
MaxJoinedRows == 2

TwoJoinDatabases ==
    {[n \in (IF third THEN {"L", "R", "_r2"} ELSE {"L", "R"}) |->
        CASE n = "L" -> FileTable("L", LSchema, ls)
          [] n = "R" -> FileTable("R", RSchema, rs)
          [] n = "_r2" -> FileTable("_r2", LSchema, <<<<IntValue(2), IntValue(2)>>>>)] :
        third \in BOOLEAN,
        ls \in UNION {[1..k -> {<<IntValue(1), IntValue(1)>>, <<IntValue(2), IntValue(1)>>}] :
                         k \in 0..MaxJoinedRows},
        rs \in UNION {[1..k -> {<<IntValue(1), StrValue("x")>>, <<IntValue(2), StrValue("x")>>}] :
                         k \in 0..MaxJoinedRows}}

FirstOnConditions ==
    {Comparison(ColumnRef(<<"L", c>>), "=", ColumnRef(<<"R", "id">>)) : c \in {"id", "dept"}}

SecondOnConditions ==
    {Comparison(ColumnRef(<<"L", c>>), "=", Literal(IntValue(2))) : c \in {"id", "nocol"}}

TwoJoinStatements ==
    {SelectStatement(<<>>, "L", <<JoinClause("R", on1), JoinClause(t2, on2)>>, where) :
        on1 \in FirstOnConditions, t2 \in {"L", "_r2"}, on2 \in SecondOnConditions,
        where \in WhereConditions}

InitTwoJoins ==
    /\ schema = <<>>
    /\ rows = <<>>
    /\ before = <<>>
    /\ inserted = <<>>
    /\ onlyInserts = TRUE
    /\ tables \in TwoJoinDatabases
    /\ tokens_ = <<>>
    /\ srcTree = <<>>
    /\ input = NoInput
    /\ txn = NoTransaction
    /\ file = <<>>
    /\ call = [op |-> "none"]
    /\ ret = Ok(<<>>)

\* SQLExecutor::executeSelectWithJoin on a statement with two join clauses
SelectTwoJoins == \E stmt \in TwoJoinStatements : ExecuteSelectWithJoin(stmt)

\* the rows executeSelectWithJoin collects from executeJoinForRow
\* (main.cpp:208-217), before the WHERE clause and the projection
JoinRows ==
    /\ call.op = "none"
    /\ \E stmt \in TwoJoinStatements :
          /\ call' = [op |-> "executeJoinForRow", stmt |-> stmt]
          /\ ret' = mainRowsLoop(tables, stmt, tables[stmt.tableName], 1, <<>>)
    /\ UNCHANGED <<schema, rows, before, inserted, onlyInserts, tables, tokens_, srcTree, input, txn,
                   file>>

NextTwoJoins == SelectTwoJoins \/ JoinRows

SpecTwoJoins == InitTwoJoins /\ [][NextTwoJoins]_vars

\* the rows of the base table combined with the rows of the other table
\* that satisfy the condition, from the k-th pair on, in the order of the base
\* table and then of the other table
RECURSIVE CombinedPairs(_, _, _, _)
CombinedPairs(base, other, on, k) ==
    IF k > Len(base.rows) * Len(other.rows) THEN <<>>
    ELSE (IF Condition_evaluate(on,
                base.rows[((k - 1) \div Len(other.rows)) + 1]
                    \o other.rows[((k - 1) % Len(other.rows)) + 1],
                base.schema \o other.schema).value
          THEN <<base.rows[((k - 1) \div Len(other.rows)) + 1]
                    \o other.rows[((k - 1) % Len(other.rows)) + 1]>>
          ELSE <<>>)
         \o CombinedPairs(base, other, on, k + 1)

FirstJoinPairs ==
    CombinedPairs(tables[call.stmt.tableName], tables[call.stmt.joins[1].tableName],
                  call.stmt.joins[1].on, 1)

\* C28: for a SELECT with two INNER JOIN clauses the rows combined by the
\* executor are the rows of the base table with the rows of the first joined
\* table that satisfy the first ON condition, each the base row's values
\* followed by the joined row's values; the second clause adds no values
\* and its ON condition is not evaluated, so the rows are combined also when
\* that condition names a column that does not exist.  A SELECT * with no
\* WHERE clause whose second clause names a third table prints these rows.
C28_OnlyTheFirstJoinIsExecuted ==
    /\ call.op = "executeJoinForRow" => ~ret.threw /\ ret.value = FirstJoinPairs
    /\ (/\ call.op = "executeSelectWithJoin"
        /\ call.stmt.where = NullCondition
        /\ call.stmt.joins[2].tableName \in DOMAIN tables \ {"L", "R"})
           => ~ret.threw /\ ret.value.rows = FirstJoinPairs

\* two rows of L match the row of R, and the second clause joins the third
\* table on a condition that names a column that does not exist
C28_Witness ==
    /\ call.op = "executeSelectWithJoin"
    /\ call.stmt.where = NullCondition
    /\ call.stmt.joins[2].tableName = "_r2"
    /\ "_r2" \in DOMAIN tables
    /\ call.stmt.joins[2].on \in {Comparison(ColumnRef(<<"L", "nocol">>), "=", Literal(IntValue(2)))}
    /\ ~ret.threw
    /\ Len(ret.value.rows) = 2
    /\ \A i \in 1..2 : Len(ret.value.rows[i]) = 4

(***************************************************************************)
(* Parser::parse and Parser::parseMultiple, one loop iteration at a time   *)
(* (SpecSteps): call.pc says where the parser stands, ret holds its        *)
(* position current_, the statements parsed so far and the ParseError      *)
(* caught.  One step runs the body of the parseMultiple loop (parser.cpp   *)
(* 76-91) or of the synchronize loop (445-460) once.                       *)
(***************************************************************************)
MaxStepPieces == 2

\* parseStatement reads the tokens and the position alone: its outcome at
\* each position of the tokens
statementsAt(toks) == [p \in 0..Len(toks) |-> parseStatement(toks, p)]

\* the texts, each with the outcomes of parseStatement on its tokens
StepSources ==
    {[pieces |-> ps, semicolon |-> semi, eof |-> eof,
      statementAt |-> statementsAt(SourceTokens([pieces |-> ps, semicolon |-> semi,
                                                 eof |-> eof]))] :
        ps \in UNION {[1..n -> Pieces] : n \in 1..MaxStepPieces},
        semi \in BOOLEAN, eof \in BOOLEAN}

\* a Parser constructed on the tokens of a text (parser.cpp:6)
InitSteps ==
    /\ schema = <<>>
    /\ rows = <<>>
    /\ before = <<>>
    /\ inserted = <<>>
    /\ onlyInserts = TRUE
    /\ tables = <<>>
    /\ srcTree \in StepSources
    /\ tokens_ = SourceTokens(srcTree)
    /\ input = NoInput
    /\ txn = NoTransaction
    /\ file = <<>>
    /\ call = [op |-> "none", pc |-> "constructed"]
    /\ ret = Statements(<<>>, 0)

Stepped(op, pc, r) ==
    /\ call' = [op |-> op, pc |-> pc]
    /\ ret' = r
    /\ UNCHANGED <<schema, rows, before, inserted, onlyInserts, tables, tokens_, srcTree, input, txn, file>>

\* parser.cpp:73-74: parseMultiple is entered
BeginParseMultiple ==
    /\ call.op = "none"
    /\ Stepped("parseMultiple", "loop", ret)

\* parser.cpp:63-64: parse is entered
BeginParse ==
    /\ call.op = "none"
    /\ Stepped("parse", "statement", ret)

\* parser.cpp:67-69 and 86-88: the handler calls synchronize, which starts
\* with one advance() (443), s the failed outcome of parseStatement
Caught(s) == Stepped(call.op, "synchronize", Rethrown(s.cur, advance(tokens_, s.cur)))

\* parser.cpp:77-85: the statement is kept and a semicolon after it skipped
StatementKept(s) ==
    Stepped("parseMultiple", "loop",
            Statements(IF s.node.type = "none" THEN ret.value ELSE Append(ret.value, s.node),
                       IF check(tokens_, s.cur, "SEMICOLON") THEN s.cur + 1 ELSE s.cur))

\* parser.cpp:76-90: one iteration of the while loop of parseMultiple
LoopIteration ==
    /\ call.pc = "loop"
    /\ ~isAtEnd(tokens_, ret.cur)
    /\ \E s \in {srcTree.statementAt[ret.cur]} :
        IF s.ok THEN StatementKept(s) ELSE Caught(s)

\* parser.cpp:76 and 92: the loop ends and the statements are returned
LoopExit ==
    /\ call.pc = "loop"
    /\ isAtEnd(tokens_, ret.cur)
    /\ Stepped(call.op, "returned", ret)

\* parser.cpp:64-70: the one statement of parse
ParseOne ==
    /\ call.pc = "statement"
    /\ \E s \in {srcTree.statementAt[ret.cur]} :
        IF s.ok THEN Stepped("parse", "returned", Statements(<<s.node>>, s.cur))
        ELSE Caught(s)

\* parser.cpp:445-448: synchronize goes on looking for the next statement
synchronizeContinues(toks, cur) ==
    /\ ~isAtEnd(toks, cur)
    /\ previous(toks, cur).type # "SEMICOLON"
    /\ peek(toks, cur).type \notin StatementKeywords

\* a loop body without its advance()
synchronizeStay(toks, cur) == cur

\* parser.cpp:459: the position after one iteration of the loop of synchronize
synchronizeNext(toks, cur) == advance(toks, cur)

\* parser.cpp:445-460: one iteration of the while loop of synchronize
SynchronizeIteration ==
    /\ call.pc = "synchronize"
    /\ synchronizeContinues(tokens_, ret.cur)
    /\ Stepped(call.op, "synchronize", Rethrown(ret.at, synchronizeNext(tokens_, ret.cur)))

\* parser.cpp:445-457 and 69, 88: synchronize returns and the ParseError is
\* thrown again
SynchronizeExit ==
    /\ call.pc = "synchronize"
    /\ ~synchronizeContinues(tokens_, ret.cur)
    /\ Stepped(call.op, "raised", ret)

NextSteps ==
    \/ BeginParseMultiple
    \/ BeginParse
    \/ LoopIteration
    \/ LoopExit
    \/ ParseOne
    \/ SynchronizeIteration
    \/ SynchronizeExit

SpecSteps == InitSteps /\ [][NextSteps]_vars

\* a call that has begun goes on executing
SpecStepsFair == SpecSteps /\ WF_vars(NextSteps)

Finished == call.pc \in {"returned", "raised"}

\* whether an outcome is a failure or ends after position p
raisedOrPast(r, p) == ~r.ok \/ r.cur > p

\* one iteration of each loop inside a statement, begun at position p of the
\* tokens: an element of a comma-separated list (of column definitions, of
\* column names, of values, of selected columns, of assignments), the right
\* operand after an AND or an OR, a JOIN clause
listIterationsAdvance(toks, p) ==
    /\ raisedOrPast(columnDefLoop(toks, p, <<>>), p)
    /\ raisedOrPast(columnNameLoop(toks, p, <<>>), p)
    /\ raisedOrPast(expressionLoop(toks, p, <<>>), p)
    /\ raisedOrPast(selectColumnLoop(toks, p, <<>>), p)
    /\ raisedOrPast(assignmentLoop(toks, p, <<>>), p)

logicalIterationsAdvance(toks, p) ==
    /\ check(toks, p, "AND") => raisedOrPast(andOperand(toks, p + 1), p)
    /\ check(toks, p, "OR") => raisedOrPast(orOperand(toks, p + 1), p)
    /\ check(toks, p, "INNER") => raisedOrPast(parseJoin(toks, p, <<>>), p)

InnerLoopsAdvance ==
    \A p \in 0..Len(tokens_) :
        listIterationsAdvance(tokens_, p) /\ logicalIterationsAdvance(tokens_, p)

\* C30: Parser::parse and Parser::parseMultiple terminate on every token
\* sequence, whether or not it ends with END_OF_FILE: every iteration of the
\* parseMultiple loop and of the synchronize loop that stays in its loop has
\* consumed at least one token, every iteration of a list, AND, OR or JOIN
\* loop inside a statement ends past the position it began at or raises, the
\* position never passes the end of the tokens, and every call eventually
\* returns or raises -- with the outcome of the call taken as a whole.
C30_ParseTerminates ==
    /\ [][call'.pc = call.pc => ret'.cur > ret.cur]_vars
    /\ [](InnerLoopsAdvance /\ ret.cur <= Len(tokens_))
    /\ [](srcTree.statementAt = statementsAt(tokens_))
    /\ [](Finished =>
            ret = IF call.op = "parse" THEN parse_(tokens_, 0) ELSE parseMultiple(tokens_))
    /\ <>Finished

\* parseMultiple has kept one statement and failed on the second, a SELECT
\* without FROM, and synchronize has gone over the rest of it, one token in
\* its first advance() and four in four iterations, to the end of tokens
\* that hold no END_OF_FILE
C30_Witness ==
    /\ call = [op |-> "parseMultiple", pc |-> "raised"]
    /\ srcTree.pieces = <<"delete", "select-no-from">>
    /\ ~srcTree.semicolon
    /\ ~srcTree.eof
    /\ ret.threw
    /\ ret.at = 6
    /\ ret.cur = ret.at + 5
    /\ ret.cur = Len(tokens_)
====
